---- MODULE Spec2Model ----
(***************************************************************************)
(* WHOOP token lifecycle of the gym-bro Telegram bot.                      *)
(*                                                                         *)
(* The model covers the Firestore collections "users" and "oauth_states",  *)
(* the upstream WHOOP authorization/resource server, and the handlers that *)
(* touch them: /start, /linkwhoop, the /whoop/callback route and the two   *)
(* refreshing fetch helpers (app.py fetch_whoop_data and main.py           *)
(* fetch_whoop_sleep_data), the daily sync update_daily_health_data with   *)
(* its "health_metrics" documents, and the hourly sweep over all users,    *)
(* scheduled_update_health_data.  Handlers run as tasks that may           *)
(* interleave at every blocking I/O call (Firestore read/write, HTTP       *)
(* request), which is where the thread pool of FastAPI/telebot can switch  *)
(* between them.                                                           *)
(***************************************************************************)
EXTENDS Integers, FiniteSets, Sequences, TLC

(***************************************************************************)
(* Bounds of the model.                                                    *)
(***************************************************************************)
MaxIssued == 3          \* token pairs the upstream server issues in a run
MaxStates == 2          \* OAuth state values minted in a run
MaxData == 1            \* versions of the upstream resource data in a run

Users == {"u1", "u2"}   \* telegram ids
Dates == {"d1", "d2"}   \* date strings (document ids under health_metrics)
Procs == {"p1", "p2"}   \* concurrently running handler tasks

(***************************************************************************)
(* Values.  A token is the number of the upstream token response that      *)
(* issued it (access token n and refresh token n come from response n);    *)
(* None is Python's None (a key missing from a dict, dict.get's default).  *)
(***************************************************************************)
None == 0
Tokens == 1..MaxIssued
OptToken == Tokens \cup {None}
StateVals == 1..MaxStates

DataTypes == {"sleep", "recovery", "workout", "profile"}

TokenKeys == {"access_token", "refresh_token"}

\* The JSON objects a token endpoint response body is drawn from: the keys
\* present, and the token pair the present keys carry.  "error" stands for
\* any key other than the two token keys.
BodyKeySets == {{"access_token", "refresh_token"}, {"access_token"},
                {"refresh_token"}, {"error"}, {}}

\* dict.get(key) on a token response body
DictGet(d, k) == IF k \in d.keys THEN d.pair ELSE None

\* truthiness of a dict: non-empty
DictTruthy(d) == d.keys # {}

\* A JSON object: the keys present; pair is the token pair the token keys
\* carry, records the value of "records", success the value of "success"
\* ("True", "False", or "None" when the key is absent) and error the value
\* of "error" when it is a string; searchable tells whether Python's "in"
\* can be applied to that value (a string, an array, an object) or raises
\* TypeError (null, a number)
EmptyBody == [keys |-> {}, pair |-> None, records |-> <<>>,
              success |-> "None", error |-> "", searchable |-> TRUE]

\* An HTTP exchange as requests sees it: status 0 is a transport error
\* (requests raises before any status is known); reason is the reason
\* phrase of the status line, "" for the standard one.  json tells whether
\* resp.json() can parse the body, value what it returns: "object" (a dict,
\* described by body), "truthy" (any other value that is true in a
\* condition: the array ["x"], the string "A2") or "falsy" (any other
\* value: [], null); type is the name of the Python type of that value.
\* exc is str(e) of the exception requests raises for the exchange: that
\* of the request when the transport fails, that of resp.json() when the
\* body is not JSON.
HttpResp(s, j, b) ==
    [status |-> s, json |-> j, body |-> b, reason |-> "", exc |-> "",
     value |-> "object", type |-> "dict"]

\* response.raise_for_status(): HTTPError for the statuses 400..599
RaisesForStatus(resp) == resp.status \in 400..599

\* str(e) of that HTTPError: "<status> Client|Server Error: <reason> for
\* url: <url>"
HttpErrorText(resp) ==
    ToString(resp.status)
        \o (IF resp.status < 500 THEN " Client Error: " ELSE " Server Error: ")
        \o resp.reason \o " for url"

\* Python's "phrase in text" on strings
Contains(text, phrase) ==
    \E i \in 1..(Len(text) - Len(phrase) + 1) :
        SubSeq(text, i, i + Len(phrase) - 1) = phrase

\* Result dicts of the fetch helpers.  success is "True", "False" or "None"
\* (key absent, as in the empty dict {}).
\* has_records tells whether the dict has the key "records", searchable
\* whether "in" can be applied to result.get("error", "").
Result(s, e) ==
    [success |-> s, error |-> e, records |-> <<>>, has_records |-> FALSE,
     searchable |-> TRUE]
EmptyResult == Result("None", "")
UNAUTHORIZED == "Unauthorized or Token Expired"

\* str(e) of the JSONDecodeError of response.json() for a body that does
\* not start a JSON value (an empty body, a page of HTML)
JSON_ERROR == "Expecting value: line 1 column 1 (char 0)"

\* str(e) of the TypeError of {"success": True, **value} for a value that
\* is not a mapping
MappingErrorText(resp) == "'" \o resp.type \o "' object is not a mapping"

\* {"success": True, **body}: the members of the body extend the dict and
\* replace its "success"
Merged(body) ==
    [success |-> IF "success" \in body.keys THEN body.success ELSE "True",
     error |-> IF "error" \in body.keys THEN body.error ELSE "",
     records |-> IF "records" \in body.keys THEN body.records ELSE <<>>,
     has_records |-> "records" \in body.keys,
     searchable |-> "error" \in body.keys => body.searchable]

\* result.get("success") used as a condition
ResultSuccess(r) == r.success = "True"

(***************************************************************************)
(* Pure helpers of the source.                                             *)
(***************************************************************************)

\* app.py _call_whoop_api / main.py _call_whoop_sleep_api, after
\* requests.get returned (or raised): the result dict built from the
\* response.
\* Variant without raise_for_status: an error status counts as an answer
CallWhoopApiResultNoRaise(resp) ==
    IF resp.status = 0 THEN Result("False", resp.exc)
    ELSE IF resp.status \in {401, 403} THEN Result("False", UNAUTHORIZED)
    ELSE IF ~resp.json \/ resp.value # "object" THEN Result("True", "")
    ELSE Merged(resp.body)

CallWhoopApiResult(resp) ==
    IF resp.status = 0 THEN Result("False", resp.exc)
    ELSE IF resp.status \in {401, 403} THEN Result("False", UNAUTHORIZED)
    ELSE IF RaisesForStatus(resp) THEN Result("False", HttpErrorText(resp))
    ELSE IF ~resp.json THEN Result("False", resp.exc)
    ELSE IF resp.value # "object"
    THEN Result("False", MappingErrorText(resp))
    ELSE Merged(resp.body)

\* The value of resp.json(): data describes it when it is an object
JsonValue(resp) ==
    [ok |-> TRUE, value |-> resp.value,
     data |-> IF resp.value = "object" THEN resp.body ELSE EmptyBody]

\* Python's None in the place of such a value
NoValue == [ok |-> FALSE, value |-> "falsy", data |-> EmptyBody]

\* refresh_whoop_token after requests.post returned (or raised): what
\* resp.json() gave, as it is, or None.  ok = FALSE stands for the None
\* return value.
RefreshWhoopTokenResult(resp) ==
    IF resp.status = 0 \/ RaisesForStatus(resp) \/ ~resp.json
    THEN NoValue
    ELSE JsonValue(resp)

\* "if refreshed_tokens:" -- None, the empty dict and the other falsy
\* values fail the test
RefreshedTruthy(r) ==
    /\ r.ok
    /\ IF r.value = "object" THEN DictTruthy(r.data) ELSE r.value = "truthy"

\* refreshed_tokens.get(...) raises AttributeError: the value is no dict
GetRaises(r) == r.value # "object"

\* app.py: the endpoints table; "" is the missing entry (endpoints.get)
Endpoint(dt) ==
    CASE dt = "sleep" -> "activity/sleep"
      [] dt = "recovery" -> "recovery"
      [] dt = "workout" -> "activity/workout"
      [] OTHER -> ""

\* f"Invalid data type: {data_type}"
InvalidDataType(dt) == "Invalid data type: " \o dt

\* Variant of ShouldRefresh in which app.py, too, refreshes after any failure
ShouldRefreshAnyFailure(variant, response) == ~ResultSuccess(response)

\* The condition under which a failed first GET leads to a refresh.
\* app.py looks for the phrase in the error text, main.py refreshes on any
\* failure.
ShouldRefresh(variant, response) ==
    /\ ~ResultSuccess(response)
    /\ (variant = "app" => Contains(response.error, UNAUTHORIZED))

\* app.py: the test for the phrase raises TypeError, "in" cannot be applied
\* to the value of "error"
PhraseTestRaises(variant, response) ==
    /\ ~ResultSuccess(response)
    /\ variant = "app"
    /\ ~response.searchable

(***************************************************************************)
(* State.                                                                  *)
(***************************************************************************)
VARIABLES
    users,          \* Firestore collection "users": telegram id -> document
    oauth_states,   \* Firestore collection "oauth_states": state -> telegram id
    minted,         \* number of state values uuid4 has produced so far
    upstream,       \* the WHOOP server: pairs issued, tokens it still accepts
    task,           \* per running handler task: its position and locals
    health_metrics, \* users/{id}/health_metrics/{date}: the daily documents
    whoop_data,     \* version of the resource data the WHOOP server holds
    sync,           \* per task: the update_daily_health_data call it is in
    last_sync,      \* what the sync that returned last did
    sweep           \* the running call of scheduled_update_health_data

vars == <<users, oauth_states, minted, upstream, task,
          health_metrics, whoop_data, sync, last_sync, sweep>>

syncVars == <<health_metrics, whoop_data, sync, sweep>>

NoDoc == [exists |-> FALSE, whoop_access_token |-> None,
          whoop_refresh_token |-> None]

\* document.set({...}, merge=True) of the two token fields
SetTokensMerge(doc, a, r) ==
    [doc EXCEPT !.exists = TRUE, !.whoop_access_token = a,
                !.whoop_refresh_token = r]

NoUser == ""
NotRefreshed == NoValue

\* A health_metrics document is addressed by its path: user and date
MetricKeys == Users \X Dates

\* nulls holds the categories whose field is null (Python's None) and no
\* sequence
NoMetrics == [exists |-> FALSE, sleep_records |-> <<>>,
              recovery_records |-> <<>>, workout_records |-> <<>>,
              nulls |-> {}, timestamp |-> ""]

\* No version: the data changed while they were fetched
Mixed == -1

\* The sync that returned last: its user and date, the version of the data
\* it fetched, the categories whose fetch succeeded and those it stored
\* null for
NotSynced == [user |-> NoUser, date |-> "", version |-> Mixed, ok |-> {},
              nulls |-> {}]

\* No sweep is running
NoSweep == [active |-> FALSE, proc |-> "",
            queue |-> <<>>,      \* documents of users_list still to come
            snapshot |-> [u \in Users |-> NoDoc],  \* users as streamed
            called |-> {},       \* users update_daily_health_data was called for
            status |-> "",       \* "status" of the response
            metrics0 |-> [k \in MetricKeys |-> NoMetrics]]

\* A task that is not inside update_daily_health_data
NoSync == [active |-> FALSE, user |-> NoUser, date |-> "",
           results |-> <<>>,     \* sleep_data, recovery_data, workout_data
           log |-> <<>>,         \* per fetch: the GETs and refreshes it made
           returned |-> "",      \* the value the call returned
           v0 |-> 0,             \* the server's data version on entry
           metrics0 |-> [k \in MetricKeys |-> NoMetrics], \* documents on entry
           seen0 |-> NotSynced]  \* the sync that returned before it

IdleTask ==
    [handler |-> "none", pc |-> "idle", user |-> NoUser,
     access_token |-> None, refresh_token |-> None,
     new_access_token |-> None, new_refresh_token |-> None,
     first |-> EmptyResult, response |-> EmptyResult,
     refreshed |-> NotRefreshed,
     cred0 |-> NoDoc,      \* the user document as read at the start
     sent |-> <<>>,        \* bearer tokens of the resource GETs issued
     statuses |-> <<>>,    \* HTTP statuses the GETs (the code exchange) were answered with
     answers |-> <<>>,     \* those answers
     endpoint |-> "",      \* the endpoint of the GETs
     refreshes |-> 0,      \* token-refresh POSTs issued
     writes |-> 0,         \* writes to the users collection
     exchanged |-> NotRefreshed,   \* whoop_callback: the parsed token_data
     replay |-> FALSE,     \* whoop_callback: its state was used before
     users0 |-> [u \in Users |-> NoDoc],  \* whoop_callback: users on entry
     lookups |-> 0,        \* reads in the oauth_states collection
     deletes |-> 0,        \* deletes in the oauth_states collection
     notified |-> 0,       \* Telegram messages sent
     state |-> 0, code |-> 0, exchanges |-> 0, reply |-> ""]

Init ==
    /\ users = [u \in Users |-> NoDoc]
    /\ oauth_states = [s \in StateVals |-> NoUser]
    /\ minted = 0
    /\ upstream = [issued |-> 0, stale |-> 0, refresh |-> {}]
    /\ task = [p \in Procs |-> IdleTask]
    /\ health_metrics = [k \in MetricKeys |-> NoMetrics]
    /\ whoop_data = 0
    /\ sync = [p \in Procs |-> NoSync]
    /\ last_sync = NotSynced
    /\ sweep = NoSweep

(***************************************************************************)
(* The upstream WHOOP server (collaborator).  Refresh tokens are           *)
(* single-use: a successful refresh retires the refresh token presented.   *)
(* Access tokens have one lifetime, so they go stale in the order they     *)
(* were issued: access tokens 1..stale are no longer accepted.             *)
(***************************************************************************)
Body(keys, n) ==
    [EmptyBody EXCEPT !.keys = keys,
                      !.pair = IF keys \cap TokenKeys = {} THEN None ELSE n]

\* requests raised before it had an answer; text is str(e)
TransportFailure(text) == [HttpResp(0, FALSE, EmptyBody) EXCEPT !.exc = text]

TransportError == TransportFailure("Connection refused")

\* The server's status line is not one of HTTP and holds the phrase
\* fetch_whoop_data looks for: requests raises ConnectionError, whose text
\* quotes the line
BadStatusLine ==
    TransportFailure("BadStatusLine('HTTP/1.1 OOPS " \o UNAUTHORIZED \o "')")

HttpError(s) == HttpResp(s, FALSE, EmptyBody)

\* An error answer whose status line carries a reason phrase of its own
HttpErrorReason(s, reason) == [HttpError(s) EXCEPT !.reason = reason]

\* A 2xx answer whose body is not JSON (a page of a gateway or proxy)
NotJson == [HttpResp(200, FALSE, EmptyBody) EXCEPT !.exc = JSON_ERROR]

\* A 2xx answer whose body is JSON and no object: the array ["x"]
NotObject ==
    [HttpResp(200, TRUE, EmptyBody) EXCEPT !.value = "truthy", !.type = "list"]

\* The JSON objects that answer a resource GET: the documented one holds
\* the records, {} holds nothing, and the others report a failure of their
\* own: {"success": false, "records": [...]}, {"success": false, "error":
\* text} and {"success": false, "error": null}
RecordsBody == [EmptyBody EXCEPT !.keys = {"records"}]

FailureWithRecords ==
    [EmptyBody EXCEPT !.keys = {"success", "records"}, !.success = "False"]

FailureBody(text) ==
    [EmptyBody EXCEPT !.keys = {"success", "error"}, !.success = "False",
                      !.error = text]

\* {"success": false, "error": null}
FailureNullError == [FailureBody("") EXCEPT !.searchable = FALSE]

\* An answer with JSON body b under a status that is neither 2xx nor one
\* raise_for_status raises for (1xx, 3xx without a Location header, 6xx)
Unraised(b) == HttpResp(300, TRUE, b)

\* Answers of the token endpoint when it issues pair n: 2xx with the
\* documented body, with bodies lacking keys, with a body that is not JSON
\* and with one that is JSON and no object, and the documented body under a
\* status outside 2xx, 4xx and 5xx
IssuedResponses(n) ==
    {HttpResp(200, TRUE, Body(k, n)) : k \in BodyKeySets}
        \cup {NotJson, NotObject, Unraised(Body(TokenKeys, n))}

AccessValid(tok) == tok > upstream.stale /\ tok <= upstream.issued

\* Answers to a resource GET carrying bearer token tok: the resource
\* endpoints answer 2xx with the documented JSON object and 401/403 on a
\* stale token; whatever the token, the request may fail in transport (with
\* a text that holds the phrase fetch_whoop_data looks for, or not), be
\* answered 500 (with the standard reason phrase or with one that holds the
\* phrase), be answered 2xx with a body that is not JSON, that is no object
\* or that is another object than the documented one, or be answered with
\* the documented object under a status outside 2xx, 4xx and 5xx
GetResponses(tok) ==
    {TransportError, BadStatusLine,
     HttpError(500), HttpErrorReason(500, UNAUTHORIZED),
     NotJson, NotObject, Unraised(RecordsBody),
     HttpResp(200, TRUE, EmptyBody),
     HttpResp(200, TRUE, FailureWithRecords),
     HttpResp(200, TRUE, FailureBody(UNAUTHORIZED)),
     HttpResp(200, TRUE, FailureNullError)} \cup
    (IF AccessValid(tok)
       THEN {HttpResp(200, TRUE, RecordsBody)}
       ELSE {HttpError(401), HttpError(403)})

\* The records the server holds for an endpoint (none at version 0)
RecordsAt(ep) ==
    IF whoop_data = 0 THEN <<>>
    ELSE <<[endpoint |-> ep, version |-> whoop_data]>>

\* The "records" of a JSON object that answers a resource GET are the
\* records of the endpoint
Answer(resp, ep) ==
    IF resp.json /\ "records" \in resp.body.keys
    THEN [resp EXCEPT !.body.records = RecordsAt(ep)]
    ELSE resp

\* Answers to grant_type=refresh_token carrying refresh token r
RefreshResponses(r) ==
    {TransportError} \cup
    (IF r \in upstream.refresh
       THEN {HttpError(500)} \cup
            (IF upstream.issued < MaxIssued
               THEN IssuedResponses(upstream.issued + 1) ELSE {})
       ELSE {HttpError(400)})

\* Answers to grant_type=authorization_code
ExchangeResponses ==
    {TransportError, HttpError(400)} \cup
    (IF upstream.issued < MaxIssued
       THEN IssuedResponses(upstream.issued + 1) ELSE {})

\* The server's state after it answered resp to a token request that
\* presented refresh token r (None for a code exchange)
UpstreamAfterToken(r, resp) ==
    IF resp \in IssuedResponses(upstream.issued + 1)
    THEN [issued |-> upstream.issued + 1,
          stale |-> upstream.stale,
          refresh |-> (upstream.refresh \ {r}) \cup {upstream.issued + 1}]
    ELSE upstream

\* The oldest live access token expires; nothing tells the bot
Expire ==
    /\ upstream.stale < upstream.issued
    /\ upstream' = [upstream EXCEPT !.stale = @ + 1]
    /\ UNCHANGED <<users, oauth_states, minted, task, syncVars, last_sync>>

\* The server's resource data change (a new or updated record)
DataChange ==
    /\ whoop_data < MaxData
    /\ whoop_data' = whoop_data + 1
    /\ UNCHANGED <<users, oauth_states, minted, upstream, task,
                   health_metrics, sync, last_sync, sweep>>

(***************************************************************************)
(* The refreshing fetch: app.py fetch_whoop_data (handler                  *)
(* "fetch_whoop_data") and main.py fetch_whoop_sleep_data (handler         *)
(* "fetch_whoop_sleep_data").  The two differ in the endpoint lookup and   *)
(* in the condition that leads to a refresh.                               *)
(***************************************************************************)
FetchHandlers == {"fetch_whoop_data", "fetch_whoop_sleep_data"}

Variant(h) == IF h = "fetch_whoop_data" THEN "app" ELSE "main"

\* The data types a handler is called with: main.py's helper fetches sleep
FetchInputs ==
    {<<"fetch_whoop_data", dt>> : dt \in DataTypes}
        \cup {<<"fetch_whoop_sleep_data", "sleep">>}

Set(p, t) == task' = [task EXCEPT ![p] = t]

\* The three calls of update_daily_health_data, in the order it makes them
SyncOrder == <<"sleep", "recovery", "workout">>

\* The endpoint of the GETs a task makes: the one fetch_whoop_data has
\* looked up for its data type (main.py's helper has the sleep endpoint)
EndpointOf(p) == task[p].endpoint

\* Variant of FetchStart without the two early returns for a missing
\* document or access token
FetchStartNoCheck(p, u, h, dt) ==
    /\ task[p].pc = "idle"
    /\ LET doc == users[u]
           t == [IdleTask EXCEPT !.handler = h, !.user = u, !.cred0 = doc]
       IN  IF Variant(h) = "app" /\ Endpoint(dt) = ""
           THEN Set(p, [t EXCEPT !.pc = "done",
                          !.response = Result("False", InvalidDataType(dt))])
           ELSE Set(p, [t EXCEPT !.pc = "get1",
                          !.endpoint = Endpoint(dt),
                          !.access_token = doc.whoop_access_token,
                          !.refresh_token = doc.whoop_refresh_token])
    /\ UNCHANGED <<users, oauth_states, minted, upstream, syncVars, last_sync>>

\* Variant of FetchEnter that looks the endpoint up before it reads the
\* user document
FetchEnterEndpointFirst(p, u, h, dt) ==
       LET doc == users[u]
           t == [IdleTask EXCEPT !.handler = h, !.user = u, !.cred0 = doc]
       IN  IF Variant(h) = "app" /\ Endpoint(dt) = ""
           THEN Set(p, [t EXCEPT !.pc = "done",
                          !.response = Result("False", InvalidDataType(dt))])
           ELSE IF ~doc.exists \/ doc.whoop_access_token = None
           THEN Set(p, [t EXCEPT !.pc = "done", !.response = EmptyResult])
           ELSE Set(p, [t EXCEPT !.pc = "get1",
                          !.endpoint = Endpoint(dt),
                          !.access_token = doc.whoop_access_token,
                          !.refresh_token = doc.whoop_refresh_token])

\* Steps 1-3: read the user document, pick the endpoint.
FetchEnter(p, u, h, dt) ==
       LET doc == users[u]
           t == [IdleTask EXCEPT !.handler = h, !.user = u, !.cred0 = doc]
       IN  IF ~doc.exists \/ doc.whoop_access_token = None
           THEN Set(p, [t EXCEPT !.pc = "done", !.response = EmptyResult])
           ELSE IF Variant(h) = "app" /\ Endpoint(dt) = ""
           THEN Set(p, [t EXCEPT !.pc = "done",
                          !.response = Result("False", InvalidDataType(dt))])
           ELSE Set(p, [t EXCEPT !.pc = "get1",
                          !.endpoint = Endpoint(dt),
                          !.access_token = doc.whoop_access_token,
                          !.refresh_token = doc.whoop_refresh_token])

\* fetch_whoop_data / fetch_whoop_sleep_data called by a handler of its own
FetchStart(p, u, h, dt) ==
    /\ task[p].pc = "idle"
    /\ FetchEnter(p, u, h, dt)
    /\ UNCHANGED <<users, oauth_states, minted, upstream, syncVars, last_sync>>

\* Variant of FetchGet that refreshes the tokens whatever the answer was
FetchGetRefreshesAnyway(p, resp) ==
    /\ task[p].pc = "get1"
    /\ resp \in GetResponses(task[p].access_token)
    /\ LET r == CallWhoopApiResult(Answer(resp, EndpointOf(p)))
       IN  Set(p, [task[p] EXCEPT !.first = r, !.response = r,
                                  !.sent = Append(@, task[p].access_token),
                                  !.statuses = Append(@, resp.status),
                                  !.answers = Append(@, resp),
                                  !.pc = "refresh"])
    /\ UNCHANGED <<users, oauth_states, minted, upstream, syncVars, last_sync>>

\* Step 4: the first resource GET, and the decision to refresh; the
\* TypeError of the test for the phrase leaves the function (pc "raised").
FetchGet(p, resp) ==
    /\ task[p].pc = "get1"
    /\ resp \in GetResponses(task[p].access_token)
    /\ LET r == CallWhoopApiResult(Answer(resp, EndpointOf(p)))
           t == [task[p] EXCEPT !.first = r, !.response = r,
                                !.sent = Append(@, task[p].access_token),
                                !.statuses = Append(@, resp.status),
                                !.answers = Append(@, resp)]
       IN  Set(p, [t EXCEPT !.pc = IF PhraseTestRaises(Variant(t.handler), r)
                                   THEN "raised"
                                   ELSE IF ShouldRefresh(Variant(t.handler), r)
                                   THEN "refresh" ELSE "done"])
    /\ UNCHANGED <<users, oauth_states, minted, upstream, syncVars, last_sync>>

\* Variant of FetchRefresh without the "if refreshed_tokens:" test
FetchRefreshIgnoresFailure(p, resp) ==
    /\ task[p].pc = "refresh"
    /\ resp \in RefreshResponses(task[p].refresh_token)
    /\ upstream' = UpstreamAfterToken(task[p].refresh_token, resp)
    /\ LET r == RefreshWhoopTokenResult(resp)
           t == [task[p] EXCEPT !.refreshed = r, !.refreshes = @ + 1]
       IN  IF GetRaises(r)
           THEN Set(p, [t EXCEPT !.pc = "raised"])
           ELSE Set(p, [t EXCEPT
                          !.pc = "store",
                          !.new_access_token = DictGet(r.data, "access_token"),
                          !.new_refresh_token = DictGet(r.data, "refresh_token")])
    /\ UNCHANGED <<users, oauth_states, minted, syncVars, last_sync>>

\* Variant of FetchRefresh that, when the refresh fails, writes back the pair
\* it read at the start
FetchRefreshRestoresOld(p, resp) ==
    /\ task[p].pc = "refresh"
    /\ resp \in RefreshResponses(task[p].refresh_token)
    /\ upstream' = UpstreamAfterToken(task[p].refresh_token, resp)
    /\ LET r == RefreshWhoopTokenResult(resp)
           t == [task[p] EXCEPT !.refreshed = r, !.refreshes = @ + 1]
       IN  IF RefreshedTruthy(r) /\ GetRaises(r)
           THEN Set(p, [t EXCEPT !.pc = "raised"])
           ELSE IF RefreshedTruthy(r)
           THEN Set(p, [t EXCEPT
                          !.pc = "store",
                          !.new_access_token = DictGet(r.data, "access_token"),
                          !.new_refresh_token = DictGet(r.data, "refresh_token")])
           ELSE Set(p, [t EXCEPT
                          !.pc = "store",
                          !.new_access_token = task[p].access_token,
                          !.new_refresh_token = task[p].refresh_token])
    /\ UNCHANGED <<users, oauth_states, minted, syncVars, last_sync>>

\* Step 5: refresh_whoop_token(refresh_token), "if refreshed_tokens:" and
\* the two refreshed_tokens.get(...), which raise AttributeError on a value
\* that is no dict: the exception leaves the function (pc "raised").
FetchRefresh(p, resp) ==
    /\ task[p].pc = "refresh"
    /\ resp \in RefreshResponses(task[p].refresh_token)
    /\ upstream' = UpstreamAfterToken(task[p].refresh_token, resp)
    /\ LET r == RefreshWhoopTokenResult(resp)
           t == [task[p] EXCEPT !.refreshed = r, !.refreshes = @ + 1]
       IN  IF RefreshedTruthy(r) /\ GetRaises(r)
           THEN Set(p, [t EXCEPT !.pc = "raised"])
           ELSE IF RefreshedTruthy(r)
           THEN Set(p, [t EXCEPT
                          !.pc = "store",
                          !.new_access_token = DictGet(r.data, "access_token"),
                          !.new_refresh_token = DictGet(r.data, "refresh_token")])
           ELSE Set(p, [t EXCEPT !.pc = "done"])
    /\ UNCHANGED <<users, oauth_states, minted, syncVars, last_sync>>

\* Variant of FetchStore that stores the new access token only
FetchStoreAccessOnly(p) ==
    /\ task[p].pc = "store"
    /\ users' = [users EXCEPT ![task[p].user] =
                    SetTokensMerge(@, task[p].new_access_token,
                                      @.whoop_refresh_token)]
    /\ Set(p, [task[p] EXCEPT !.pc = "get2", !.writes = @ + 1])
    /\ UNCHANGED <<oauth_states, minted, upstream, syncVars, last_sync>>

\* Variant of FetchStore that stores the new refresh token only
FetchStoreRefreshOnly(p) ==
    /\ task[p].pc = "store"
    /\ users' = [users EXCEPT ![task[p].user] =
                    SetTokensMerge(@, @.whoop_access_token,
                                      task[p].new_refresh_token)]
    /\ Set(p, [task[p] EXCEPT !.pc = "get2", !.writes = @ + 1])
    /\ UNCHANGED <<oauth_states, minted, upstream, syncVars, last_sync>>

\* Variant of FetchStore that does not write the new pair
FetchStoreSkipped(p) ==
    /\ task[p].pc = "store"
    /\ Set(p, [task[p] EXCEPT !.pc = "get2"])
    /\ UNCHANGED <<users, oauth_states, minted, upstream, syncVars, last_sync>>

\* Store new tokens in Firestore: one set(..., merge=True) of both fields.
FetchStore(p) ==
    /\ task[p].pc = "store"
    /\ users' = [users EXCEPT ![task[p].user] =
                    SetTokensMerge(@, task[p].new_access_token,
                                      task[p].new_refresh_token)]
    /\ Set(p, [task[p] EXCEPT !.pc = "get2", !.writes = @ + 1])
    /\ UNCHANGED <<oauth_states, minted, upstream, syncVars, last_sync>>

\* Variant of FetchRetry that returns the first response, not the retry's
FetchRetryKeepsFirst(p, resp) ==
    /\ task[p].pc = "get2"
    /\ resp \in GetResponses(task[p].new_access_token)
    /\ Set(p, [task[p] EXCEPT !.pc = "done",
                              !.sent = Append(@, task[p].new_access_token),
                              !.statuses = Append(@, resp.status),
                              !.answers = Append(@, resp)])
    /\ UNCHANGED <<users, oauth_states, minted, upstream, syncVars, last_sync>>

\* Variant of FetchRetry that refreshes again when the retry is refused
FetchRetryAgain(p, resp) ==
    /\ task[p].pc = "get2"
    /\ resp \in GetResponses(task[p].new_access_token)
    /\ LET r == CallWhoopApiResult(Answer(resp, EndpointOf(p)))
       IN  Set(p, [task[p] EXCEPT
                     !.pc = IF ShouldRefresh(Variant(task[p].handler), r)
                            THEN "refresh" ELSE "done",
                     !.refresh_token = task[p].new_refresh_token,
                     !.response = r,
                     !.sent = Append(@, task[p].new_access_token),
                     !.statuses = Append(@, resp.status),
                     !.answers = Append(@, resp)])
    /\ UNCHANGED <<users, oauth_states, minted, upstream, syncVars, last_sync>>

\* Variant of FetchRetry that retries with the access token read at the start
FetchRetryStaleToken(p, resp) ==
    /\ task[p].pc = "get2"
    /\ resp \in GetResponses(task[p].access_token)
    /\ Set(p, [task[p] EXCEPT !.pc = "done",
                              !.response = CallWhoopApiResult(
                                              Answer(resp, EndpointOf(p))),
                              !.sent = Append(@, task[p].access_token),
                              !.statuses = Append(@, resp.status),
                              !.answers = Append(@, resp)])
    /\ UNCHANGED <<users, oauth_states, minted, upstream, syncVars, last_sync>>

\* Retry the original request with the new access token.
FetchRetry(p, resp) ==
    /\ task[p].pc = "get2"
    /\ resp \in GetResponses(task[p].new_access_token)
    /\ Set(p, [task[p] EXCEPT !.pc = "done",
                              !.response = CallWhoopApiResult(
                                              Answer(resp, EndpointOf(p))),
                              !.sent = Append(@, task[p].new_access_token),
                              !.statuses = Append(@, resp.status),
                              !.answers = Append(@, resp)])
    /\ UNCHANGED <<users, oauth_states, minted, upstream, syncVars, last_sync>>

\* The handler returns, or the exception leaves it; the task is free for
\* the next request.
Return(p) ==
    /\ task[p].pc \in {"done", "raised"}
    /\ ~sync[p].active
    /\ Set(p, IdleTask)
    /\ UNCHANGED <<users, oauth_states, minted, upstream, syncVars, last_sync>>

(***************************************************************************)
(* Linking: /start, /linkwhoop and the /whoop/callback route (app.py).     *)
(***************************************************************************)

\* handle_start: "if not user_doc_ref.get().exists:" ...
StartGet(p, u) ==
    /\ task[p].pc = "idle"
    /\ LET t == [IdleTask EXCEPT !.handler = "handle_start", !.user = u]
       IN  Set(p, [t EXCEPT !.pc = IF users[u].exists THEN "done"
                                   ELSE "start_set"])
    /\ UNCHANGED <<users, oauth_states, minted, upstream, syncVars, last_sync>>

\* ... user_doc_ref.set({telegram_id, name, joined_at}): a set without
\* merge, which replaces the whole document.
StartSet(p) ==
    /\ task[p].pc = "start_set"
    /\ users' = [users EXCEPT ![task[p].user] =
                    [exists |-> TRUE, whoop_access_token |-> None,
                     whoop_refresh_token |-> None]]
    /\ Set(p, [task[p] EXCEPT !.pc = "done", !.writes = @ + 1])
    /\ UNCHANGED <<oauth_states, minted, upstream, syncVars, last_sync>>

\* handle_link_whoop -> create_oauth_state_for_user: uuid4 gives a value
\* never used before; the state document binds it to the telegram id.
LinkWhoop(u) ==
    /\ minted < MaxStates
    /\ minted' = minted + 1
    /\ oauth_states' = [oauth_states EXCEPT ![minted + 1] = u]
    /\ UNCHANGED <<users, upstream, task, syncVars, last_sync>>

MISSING == "Missing code or state in the WHOOP callback."
INVALID_STATE == "Invalid or expired state. Cannot link WHOOP account."
NO_ACCESS_TOKEN == "No access token returned from WHOOP."
EXCHANGE_FAILED == "Failed to exchange token with WHOOP."
AUTHORIZED == "WHOOP authorization successful! You can close this page."

\* A state value that /linkwhoop has issued and whose document is gone: the
\* only delete of the collection is the one of a callback that stored tokens
StateConsumed(state) ==
    state \in 1..minted /\ oauth_states[state] = NoUser

\* Variant: the state is accepted when it has been issued, without looking
\* at whether its document is still there
CallbackStartIssuedCheck(p, code, state) ==
    /\ task[p].pc = "idle"
    /\ LET t == [IdleTask EXCEPT !.handler = "whoop_callback",
                                 !.code = code, !.state = state,
                                 !.replay = StateConsumed(state),
                                 !.lookups = IF code = 0 \/ state = 0
                                             THEN 0 ELSE 1,
                                 !.users0 = users]
       IN  IF code = 0 \/ state = 0
           THEN Set(p, [t EXCEPT !.pc = "done", !.reply = MISSING])
           ELSE IF state \notin 1..minted
           THEN Set(p, [t EXCEPT !.pc = "done", !.reply = INVALID_STATE])
           ELSE Set(p, [t EXCEPT !.pc = "exchange",
                                 !.user = oauth_states[state]])
    /\ UNCHANGED <<users, oauth_states, minted, upstream, syncVars, last_sync>>

\* Variant: the state document is not looked at
CallbackStartNoCheck(p, code, state) ==
    /\ task[p].pc = "idle"
    /\ LET t == [IdleTask EXCEPT !.handler = "whoop_callback",
                                 !.code = code, !.state = state,
                                 !.replay = StateConsumed(state),
                                 !.lookups = IF code = 0 \/ state = 0
                                             THEN 0 ELSE 1,
                                 !.users0 = users]
       IN  IF code = 0 \/ state = 0
           THEN Set(p, [t EXCEPT !.pc = "done", !.reply = MISSING])
           ELSE Set(p, [t EXCEPT !.pc = "exchange",
                                 !.user = oauth_states[state]])
    /\ UNCHANGED <<users, oauth_states, minted, upstream, syncVars, last_sync>>

\* Variant: the state document is looked up before the parameters are
\* checked
CallbackStartLooksUpFirst(p, code, state) ==
    /\ task[p].pc = "idle"
    /\ LET t == [IdleTask EXCEPT !.handler = "whoop_callback",
                                 !.code = code, !.state = state,
                                 !.replay = StateConsumed(state),
                                 !.lookups = IF state = 0 THEN 0 ELSE 1,
                                 !.users0 = users]
       IN  IF state # 0 /\ oauth_states[state] = NoUser
           THEN Set(p, [t EXCEPT !.pc = "done", !.reply = INVALID_STATE])
           ELSE IF code = 0 \/ state = 0
           THEN Set(p, [t EXCEPT !.pc = "done", !.reply = MISSING])
           ELSE Set(p, [t EXCEPT !.pc = "exchange",
                                 !.user = oauth_states[state]])
    /\ UNCHANGED <<users, oauth_states, minted, upstream, syncVars, last_sync>>

\* whoop_callback up to the state lookup.  code and state 0 stand for a
\* missing query parameter.  (A state document always carries telegram_id,
\* so the "Could not determine Telegram user" branch is not reachable.)
CallbackStart(p, code, state) ==
    /\ task[p].pc = "idle"
    /\ LET t == [IdleTask EXCEPT !.handler = "whoop_callback",
                                 !.code = code, !.state = state,
                                 !.replay = StateConsumed(state),
                                 !.lookups = IF code = 0 \/ state = 0
                                             THEN 0 ELSE 1,
                                 !.users0 = users]
       IN  IF code = 0 \/ state = 0
           THEN Set(p, [t EXCEPT !.pc = "done", !.reply = MISSING])
           ELSE IF oauth_states[state] = NoUser
           THEN Set(p, [t EXCEPT !.pc = "done", !.reply = INVALID_STATE])
           ELSE Set(p, [t EXCEPT !.pc = "exchange",
                                 !.user = oauth_states[state]])
    /\ UNCHANGED <<users, oauth_states, minted, upstream, syncVars, last_sync>>

\* token_data of whoop_callback: the parsed body of the answer to the code
\* exchange; an exception of post, raise_for_status or json otherwise
ExchangeTokenData(resp) ==
    IF resp.status = 0 \/ RaisesForStatus(resp) \/ ~resp.json
    THEN NoValue
    ELSE JsonValue(resp)

\* The try block of whoop_callback is left for the except branch: post,
\* raise_for_status or json raised, or token_data.get did (AttributeError:
\* the value is no dict)
ExchangeRaises(resp) ==
    \/ resp.status = 0 \/ RaisesForStatus(resp) \/ ~resp.json
    \/ GetRaises(ExchangeTokenData(resp))

\* Variant: the answer is not checked for an access token
CallbackExchangeNoTokenCheck(p, resp) ==
    /\ task[p].pc = "exchange"
    /\ resp \in ExchangeResponses
    /\ upstream' = UpstreamAfterToken(None, resp)
    /\ LET t == [task[p] EXCEPT !.exchanges = @ + 1,
                                !.statuses = Append(@, resp.status),
                                !.answers = Append(@, resp),
                                !.exchanged = ExchangeTokenData(resp)]
       IN  IF ExchangeRaises(resp)
           THEN Set(p, [t EXCEPT !.pc = "done", !.reply = EXCHANGE_FAILED])
           ELSE Set(p, [t EXCEPT
                          !.pc = "cb_store",
                          !.new_access_token = DictGet(resp.body, "access_token"),
                          !.new_refresh_token = DictGet(resp.body, "refresh_token")])
    /\ UNCHANGED <<users, oauth_states, minted, syncVars, last_sync>>

\* requests.post(token_url, grant_type=authorization_code), raise_for_status,
\* resp.json() and the access-token check.
CallbackExchange(p, resp) ==
    /\ task[p].pc = "exchange"
    /\ resp \in ExchangeResponses
    /\ upstream' = UpstreamAfterToken(None, resp)
    /\ LET t == [task[p] EXCEPT !.exchanges = @ + 1,
                                !.statuses = Append(@, resp.status),
                                !.answers = Append(@, resp),
                                !.exchanged = ExchangeTokenData(resp)]
       IN  IF ExchangeRaises(resp)
           THEN Set(p, [t EXCEPT !.pc = "done", !.reply = EXCHANGE_FAILED])
           ELSE IF DictGet(resp.body, "access_token") = None
           THEN Set(p, [t EXCEPT !.pc = "done", !.reply = NO_ACCESS_TOKEN])
           ELSE Set(p, [t EXCEPT
                          !.pc = "cb_store",
                          !.new_access_token = DictGet(resp.body, "access_token"),
                          !.new_refresh_token = DictGet(resp.body, "refresh_token")])
    /\ UNCHANGED <<users, oauth_states, minted, syncVars, last_sync>>

\* Variant: the tokens go to the document of another user
CallbackStoreOtherUser(p) ==
    /\ task[p].pc = "cb_store"
    /\ users' = [users EXCEPT ![CHOOSE u \in Users : u # task[p].user] =
                    SetTokensMerge(@, task[p].new_access_token,
                                      task[p].new_refresh_token)]
    /\ Set(p, [task[p] EXCEPT !.pc = "cb_delete", !.writes = @ + 1])
    /\ UNCHANGED <<oauth_states, minted, upstream, syncVars, last_sync>>

\* Store tokens in Firestore
CallbackStore(p) ==
    /\ task[p].pc = "cb_store"
    /\ users' = [users EXCEPT ![task[p].user] =
                    SetTokensMerge(@, task[p].new_access_token,
                                      task[p].new_refresh_token)]
    /\ Set(p, [task[p] EXCEPT !.pc = "cb_delete", !.writes = @ + 1])
    /\ UNCHANGED <<oauth_states, minted, upstream, syncVars, last_sync>>

\* Clean up used state
CallbackDelete(p) ==
    /\ task[p].pc = "cb_delete"
    /\ oauth_states' = [oauth_states EXCEPT ![task[p].state] = NoUser]
    /\ Set(p, [task[p] EXCEPT !.pc = "cb_notify", !.deletes = @ + 1])
    /\ UNCHANGED <<users, minted, upstream, syncVars, last_sync>>

\* Notify user: bot.send_message inside the try block; delivered = FALSE
\* is a Telegram API error, caught by "except Exception".
CallbackNotify(p, delivered) ==
    /\ task[p].pc = "cb_notify"
    /\ Set(p, [task[p] EXCEPT !.pc = "done", !.notified = @ + 1,
                 !.reply = IF delivered THEN AUTHORIZED ELSE EXCHANGE_FAILED])
    /\ UNCHANGED <<users, oauth_states, minted, upstream, syncVars, last_sync>>

(***************************************************************************)
(* The daily sync: app.py update_daily_health_data.  One step per call of  *)
(* fetch_whoop_data (whose steps are the ones above) and one for the       *)
(* Firestore write.                                                        *)
(***************************************************************************)
SyncTask == [IdleTask EXCEPT !.handler = "update_daily_health_data",
                             !.pc = "sync_call"]

\* Entry of update_daily_health_data(telegram_id, date_str)
SyncEnter(p, u, d) ==
    /\ Set(p, SyncTask)
    /\ sync' = [sync EXCEPT ![p] =
                  [NoSync EXCEPT !.active = TRUE, !.user = u, !.date = d,
                                 !.v0 = whoop_data,
                                 !.metrics0 = health_metrics,
                                 !.seen0 = last_sync]]
    /\ UNCHANGED <<users, oauth_states, minted, upstream, health_metrics,
                   whoop_data, last_sync>>

\* update_daily_health_data(telegram_id, date_str) called on its own
SyncStart(p, u, d) ==
    /\ task[p].pc = "idle"
    /\ SyncEnter(p, u, d)
    /\ UNCHANGED sweep

\* The next of the three calls fetch_whoop_data(telegram_id, data_type)
SyncFetch(p) ==
    /\ task[p].pc = "sync_call"
    /\ sync[p].active
    /\ Len(sync[p].results) < Len(SyncOrder)
    /\ FetchEnter(p, sync[p].user, "fetch_whoop_data",
                  SyncOrder[Len(sync[p].results) + 1])
    /\ UNCHANGED <<users, oauth_states, minted, upstream, syncVars, last_sync>>

\* What a fetch that has returned did: the bearer tokens and statuses of
\* its GETs, its refresh POSTs and the pair it took from the refresh
FetchLog(t) ==
    [sent |-> t.sent, statuses |-> t.statuses, answers |-> t.answers,
     refreshes |-> t.refreshes,
     new_access_token |-> t.new_access_token,
     new_refresh_token |-> t.new_refresh_token]

\* Variant: a failed fetch ends the sync, nothing is written
SyncCollectStopsOnFailure(p) ==
    /\ task[p].pc = "done"
    /\ sync[p].active
    /\ IF ResultSuccess(task[p].response)
       THEN /\ sync' = [sync EXCEPT ![p].results = Append(@, task[p].response),
                                    ![p].log = Append(@, FetchLog(task[p]))]
            /\ Set(p, IF Len(sync[p].results) + 1 = Len(SyncOrder)
                         THEN [SyncTask EXCEPT !.pc = "sync_store"]
                         ELSE SyncTask)
       ELSE /\ sync' = [sync EXCEPT ![p].results = Append(@, task[p].response),
                                    ![p].log = Append(@, FetchLog(task[p])),
                                    ![p].returned = "None"]
            /\ Set(p, [SyncTask EXCEPT !.pc = "sync_done"])
    /\ UNCHANGED <<users, oauth_states, minted, upstream, health_metrics,
                   whoop_data, last_sync, sweep>>

\* fetch_whoop_data has returned: X_data = its result
SyncCollect(p) ==
    /\ task[p].pc = "done"
    /\ sync[p].active
    /\ sync' = [sync EXCEPT ![p].results = Append(@, task[p].response),
                            ![p].log = Append(@, FetchLog(task[p]))]
    /\ Set(p, IF Len(sync[p].results) + 1 = Len(SyncOrder)
                 THEN [SyncTask EXCEPT !.pc = "sync_store"]
                 ELSE SyncTask)
    /\ UNCHANGED <<users, oauth_states, minted, upstream, health_metrics,
                   whoop_data, last_sync, sweep>>

\* X_records = X_data.get("records") if X_data.get("success") else []
RecordsOf(result) ==
    IF ResultSuccess(result) THEN result.records ELSE <<>>

\* X_records is None: X_data.get("records") of a successful result that has
\* no such key
NoRecords(result) == ResultSuccess(result) /\ ~result.has_records

\* The categories of a sync whose X_records is None
Nulls(results) ==
    {SyncOrder[i] : i \in {j \in 1..Len(results) : NoRecords(results[j])}}

\* The categories of a sync whose fetch succeeded
Succeeded(results) ==
    {SyncOrder[i] : i \in {j \in 1..Len(results) : ResultSuccess(results[j])}}

\* Variant: the workout records are left out of the document
DataToStoreDropsWorkout(results) ==
    [exists |-> TRUE,
     sleep_records |-> RecordsOf(results[1]),
     recovery_records |-> RecordsOf(results[2]),
     workout_records |-> <<>>,
     nulls |-> Nulls(results) \ {"workout"},
     timestamp |-> "utcnow"]

\* data_to_store
DataToStore(results) ==
    [exists |-> TRUE,
     sleep_records |-> RecordsOf(results[1]),
     recovery_records |-> RecordsOf(results[2]),
     workout_records |-> RecordsOf(results[3]),
     nulls |-> Nulls(results),
     timestamp |-> "utcnow"]

\* The frame of the write: what surrounds the health_metrics update
SyncWritten(p) ==
    /\ last_sync' = [user |-> sync[p].user, date |-> sync[p].date,
                     version |-> IF sync[p].v0 = whoop_data
                                 THEN whoop_data ELSE Mixed,
                     ok |-> Succeeded(sync[p].results),
                     nulls |-> Nulls(sync[p].results)]
    /\ sync' = [sync EXCEPT ![p].returned = "None"]
    /\ Set(p, [SyncTask EXCEPT !.pc = "sync_done"])
    /\ UNCHANGED <<users, oauth_states, minted, upstream, whoop_data, sweep>>

\* Variant: the fetched records are added to the ones the document holds
SyncStoreAppends(p) ==
    /\ task[p].pc = "sync_store"
    /\ health_metrics' =
          [health_metrics EXCEPT ![<<sync[p].user, sync[p].date>>] =
             [exists |-> TRUE,
              sleep_records |-> @.sleep_records \o RecordsOf(sync[p].results[1]),
              recovery_records |->
                  @.recovery_records \o RecordsOf(sync[p].results[2]),
              workout_records |->
                  @.workout_records \o RecordsOf(sync[p].results[3]),
              nulls |-> Nulls(sync[p].results),
              timestamp |-> "utcnow"]]
    /\ SyncWritten(p)

\* Variant: a category whose fetch failed keeps the sequence it had
SyncStoreKeepsFailed(p) ==
    /\ task[p].pc = "sync_store"
    /\ health_metrics' =
          [health_metrics EXCEPT ![<<sync[p].user, sync[p].date>>] =
             [exists |-> TRUE,
              sleep_records |-> IF ResultSuccess(sync[p].results[1])
                                THEN sync[p].results[1].records
                                ELSE @.sleep_records,
              recovery_records |-> IF ResultSuccess(sync[p].results[2])
                                   THEN sync[p].results[2].records
                                   ELSE @.recovery_records,
              workout_records |-> IF ResultSuccess(sync[p].results[3])
                                  THEN sync[p].results[3].records
                                  ELSE @.workout_records,
              nulls |-> Nulls(sync[p].results),
              timestamp |-> "utcnow"]]
    /\ SyncWritten(p)

\* Variant: an empty sequence is not written over the one the document has
SyncStoreMergesNonEmpty(p) ==
    /\ task[p].pc = "sync_store"
    /\ health_metrics' =
          [health_metrics EXCEPT ![<<sync[p].user, sync[p].date>>] =
             [exists |-> TRUE,
              sleep_records |-> IF RecordsOf(sync[p].results[1]) = <<>>
                                THEN @.sleep_records
                                ELSE RecordsOf(sync[p].results[1]),
              recovery_records |-> IF RecordsOf(sync[p].results[2]) = <<>>
                                   THEN @.recovery_records
                                   ELSE RecordsOf(sync[p].results[2]),
              workout_records |-> IF RecordsOf(sync[p].results[3]) = <<>>
                                  THEN @.workout_records
                                  ELSE RecordsOf(sync[p].results[3]),
              nulls |-> Nulls(sync[p].results),
              timestamp |-> "utcnow"]]
    /\ SyncWritten(p)

\* Variant: the document id is not the date of the call
SyncStoreOtherDate(p) ==
    /\ task[p].pc = "sync_store"
    /\ health_metrics' =
          [health_metrics EXCEPT
             ![<<sync[p].user, CHOOSE d \in Dates : d # sync[p].date>>] =
                DataToStore(sync[p].results)]
    /\ SyncWritten(p)

\* users/{telegram_id}/health_metrics/{date_str}.set(data_to_store,
\* merge=True): the four fields of data_to_store are all the document has,
\* so the merge leaves none of its old values.  The function then ends
\* without a return statement.
SyncStore(p) ==
    /\ task[p].pc = "sync_store"
    /\ health_metrics' =
          [health_metrics EXCEPT ![<<sync[p].user, sync[p].date>>] =
                DataToStore(sync[p].results)]
    /\ SyncWritten(p)

\* The order users_ref.stream() yields the documents in (by document id)
UserOrder == <<"u1", "u2">>

\* today_str
Today == "d1"

InSweep(p) == sweep.active /\ sweep.proc = p

SweepTask == [IdleTask EXCEPT !.handler = "scheduled_update_health_data",
                              !.pc = "sweep_loop"]

\* POST /scheduled/update-health-data: today_str and users_ref.stream()
SweepStart(p) ==
    /\ task[p].pc = "idle"
    /\ ~sweep.active
    /\ Set(p, SweepTask)
    /\ sweep' = [NoSweep EXCEPT
                   !.active = TRUE, !.proc = p,
                   !.queue = SelectSeq(UserOrder, LAMBDA u : users[u].exists),
                   !.snapshot = users,
                   !.metrics0 = health_metrics]
    /\ UNCHANGED <<users, oauth_states, minted, upstream, health_metrics,
                   whoop_data, sync, last_sync>>

\* Skip if the user has no tokens
SweepSkip(p) ==
    /\ task[p].pc = "sweep_loop" /\ InSweep(p)
    /\ sweep.queue # <<>>
    /\ sweep.snapshot[Head(sweep.queue)].whoop_access_token = None
    /\ sweep' = [sweep EXCEPT !.queue = Tail(@)]
    /\ UNCHANGED <<users, oauth_states, minted, upstream, task,
                   health_metrics, whoop_data, sync, last_sync>>

\* Variant: update_daily_health_data is called for every document
SweepCallAnyUser(p) ==
    /\ task[p].pc = "sweep_loop" /\ InSweep(p)
    /\ sweep.queue # <<>>
    /\ SyncEnter(p, Head(sweep.queue), Today)
    /\ sweep' = [sweep EXCEPT !.queue = Tail(@),
                              !.called = @ \cup {Head(sweep.queue)}]

\* Update today's data: update_daily_health_data(telegram_id, today_str)
SweepCall(p) ==
    /\ task[p].pc = "sweep_loop" /\ InSweep(p)
    /\ sweep.queue # <<>>
    /\ sweep.snapshot[Head(sweep.queue)].whoop_access_token # None
    /\ SyncEnter(p, Head(sweep.queue), Today)
    /\ sweep' = [sweep EXCEPT !.queue = Tail(@),
                              !.called = @ \cup {Head(sweep.queue)}]

\* The loop is over: {"status": "success", ...}
SweepFinish(p) ==
    /\ task[p].pc = "sweep_loop" /\ InSweep(p)
    /\ sweep.queue = <<>>
    /\ Set(p, [SweepTask EXCEPT !.pc = "sweep_done"])
    /\ sweep' = [sweep EXCEPT !.status = "success"]
    /\ UNCHANGED <<users, oauth_states, minted, upstream, health_metrics,
                   whoop_data, sync, last_sync>>

\* metrics_doc_ref.set raises (Firestore unavailable, deadline exceeded):
\* nothing between the set and the "except Exception" of the sweep catches
\* it, so the loop is left: {"status": "error", ...}
SyncStoreRaises(p) ==
    /\ task[p].pc = "sync_store" /\ InSweep(p)
    /\ Set(p, [SweepTask EXCEPT !.pc = "sweep_done"])
    /\ sync' = [sync EXCEPT ![p] = NoSync]
    /\ sweep' = [sweep EXCEPT !.status = "error"]
    /\ UNCHANGED <<users, oauth_states, minted, upstream, health_metrics,
                   whoop_data, last_sync>>

\* fetch_whoop_data raises (the AttributeError of refreshed_tokens.get):
\* update_daily_health_data has no try, so the exception leaves it with
\* nothing written; in a sweep the "except Exception" of the loop takes it
\* and the loop is left: {"status": "error", ...}
SyncFetchRaises(p) ==
    /\ task[p].pc = "raised"
    /\ sync[p].active
    /\ IF InSweep(p)
       THEN /\ Set(p, [SweepTask EXCEPT !.pc = "sweep_done"])
            /\ sync' = [sync EXCEPT ![p] = NoSync]
            /\ sweep' = [sweep EXCEPT !.status = "error"]
       ELSE /\ Set(p, [SyncTask EXCEPT !.pc = "sync_raised"])
            /\ sync' = [sync EXCEPT ![p].log = Append(@, FetchLog(task[p])),
                                    ![p].returned = "raised"]
            /\ UNCHANGED sweep
    /\ UNCHANGED <<users, oauth_states, minted, upstream, health_metrics,
                   whoop_data, last_sync>>

\* The response of the sweep is sent
SweepReturn(p) ==
    /\ task[p].pc = "sweep_done" /\ InSweep(p)
    /\ Set(p, IdleTask)
    /\ sweep' = NoSweep
    /\ UNCHANGED <<users, oauth_states, minted, upstream, health_metrics,
                   whoop_data, sync, last_sync>>

\* The caller goes on
SyncReturn(p) ==
    /\ task[p].pc \in {"sync_done", "sync_raised"}
    /\ Set(p, IF InSweep(p) THEN SweepTask ELSE IdleTask)
    /\ sync' = [sync EXCEPT ![p] = NoSync]
    /\ UNCHANGED <<users, oauth_states, minted, upstream, health_metrics,
                   whoop_data, last_sync, sweep>>

(***************************************************************************)
(* Specification.                                                          *)
(***************************************************************************)
\* One step of the system when the tasks in P serve requests
Step(P) ==
    \/ \E p \in P, u \in Users, hd \in FetchInputs :
          FetchStart(p, u, hd[1], hd[2])
    \/ \E p \in P : \E resp \in GetResponses(task[p].access_token) :
          FetchGet(p, resp)
    \/ \E p \in P : \E resp \in RefreshResponses(task[p].refresh_token) :
          FetchRefresh(p, resp)
    \/ \E p \in P : FetchStore(p)
    \/ \E p \in P : \E resp \in GetResponses(task[p].new_access_token) :
          FetchRetry(p, resp)
    \/ \E p \in P : Return(p)
    \/ \E p \in P, u \in Users : StartGet(p, u)
    \/ \E p \in P : StartSet(p)
    \/ \E u \in Users : LinkWhoop(u)
    \/ \E p \in P, code \in 0..1, state \in 0..MaxStates :
          CallbackStart(p, code, state)
    \/ \E p \in P : \E resp \in ExchangeResponses : CallbackExchange(p, resp)
    \/ \E p \in P : CallbackStore(p)
    \/ \E p \in P : CallbackDelete(p)
    \/ \E p \in P, delivered \in BOOLEAN : CallbackNotify(p, delivered)
    \/ Expire

\* Requests served one at a time (the upstream server and /linkwhoop still
\* act between the steps of a handler)
Next == Step({"p1"})

Spec == Init /\ [][Next]_vars

\* Two requests served concurrently
NextConcurrent == Step(Procs)

SpecConcurrent == Init /\ [][NextConcurrent]_vars

\* /linkwhoop and the callbacks of the tasks in P
LinkStep(P) ==
    \/ \E u \in Users : LinkWhoop(u)
    \/ \E p \in P, code \in 0..1, state \in 0..MaxStates :
          CallbackStart(p, code, state)
    \/ \E p \in P : \E resp \in ExchangeResponses : CallbackExchange(p, resp)
    \/ \E p \in P : CallbackStore(p)
    \/ \E p \in P : CallbackDelete(p)
    \/ \E p \in P, delivered \in BOOLEAN : CallbackNotify(p, delivered)
    \/ \E p \in P : Return(p)

\* Two callbacks served concurrently (the web server runs each request in
\* a task of its own)
NextLinkConcurrent == LinkStep(Procs)

SpecLinkConcurrent == Init /\ [][NextLinkConcurrent]_vars

\* The state the syncs start from: u1 has linked (state 1 is used up, the
\* server has issued pair 1), u2 has sent /start and has not linked
InitSync ==
    /\ users = [u \in Users |->
                  IF u = "u1" THEN SetTokensMerge(NoDoc, 1, 1)
                  ELSE [NoDoc EXCEPT !.exists = TRUE]]
    /\ oauth_states = [s \in StateVals |-> NoUser]
    /\ minted = 1
    /\ upstream = [issued |-> 1, stale |-> 0, refresh |-> {1}]
    /\ task = [p \in Procs |-> IdleTask]
    /\ health_metrics = [k \in MetricKeys |-> NoMetrics]
    /\ whoop_data = 0
    /\ sync = [p \in Procs |-> NoSync]
    /\ last_sync = NotSynced
    /\ sweep = NoSweep

\* The answers to a GET of fetch_whoop_data after which it returns the
\* result without a refresh
NoRefreshAnswers(tok) ==
    {resp \in GetResponses(tok) :
        /\ ~PhraseTestRaises("app", CallWhoopApiResult(resp))
        /\ ~ShouldRefresh("app", CallWhoopApiResult(resp))}

\* The answers of S under the statuses a server in order uses (2xx, 4xx,
\* 5xx), and transport errors
Usual(S) ==
    {resp \in S : resp.status = 0 \/ resp.status \in 200..299
                      \/ RaisesForStatus(resp)}

\* The answers of S a server in order gives: the documented object under
\* 2xx, the standard reason phrase under 4xx and 5xx; and the transport
\* errors of a connection that fails
InOrder(S) ==
    {resp \in S :
        \/ resp = TransportError
        \/ RaisesForStatus(resp) /\ resp.reason = ""
        \/ /\ resp.status \in 200..299 /\ resp.json /\ resp.value = "object"
           /\ resp.body.keys = {"records"}}

\* The answers to the GETs in the runs of syncs where what matters is
\* whether a fetch succeeds: the request fails in transport, or is answered
\* 500, or 2xx with the documented object; fetch_whoop_data makes no refresh
\* after any of them
SyncAnswers(tok) == InOrder(NoRefreshAnswers(tok))

\* The answers to the GETs in the runs of syncs where what matters is what
\* goes into the document: the request fails in transport or is answered
\* 2xx with a JSON object (the documented one, {}, or one that reports a
\* failure and holds records); fetch_whoop_data makes no refresh after any
\* of them
ObjectAnswers(tok) ==
    {resp \in NoRefreshAnswers(tok) :
        \/ resp = TransportError
        \/ resp.status \in 200..299 /\ resp.json /\ resp.value = "object"}

\* Syncs served one at a time while data arrive at the server.  The access
\* token stays valid here and the answers are among those that lead to no
\* refresh (the refresh protocol is followed under Spec and SpecSyncStale):
\* a fetch fails by a transport error or a 500, and for u2 it returns {}
\* because there is no token.
NextSync ==
    \/ \E u \in Users, d \in Dates : SyncStart("p1", u, d)
    \/ SyncFetch("p1")
    \/ \E resp \in SyncAnswers(task["p1"].access_token) : FetchGet("p1", resp)
    \/ SyncCollect("p1")
    \/ SyncStore("p1")
    \/ SyncReturn("p1")
    \/ DataChange

SpecSync == InitSync /\ [][NextSync]_vars

\* Syncs of today for u1, one at a time, while data arrive at the server,
\* the GETs answered with any of the JSON objects.  The access token stays
\* valid here.
NextSyncDay ==
    \/ SyncStart("p1", "u1", Today)
    \/ SyncFetch("p1")
    \/ \E resp \in ObjectAnswers(task["p1"].access_token) : FetchGet("p1", resp)
    \/ SyncCollect("p1")
    \/ SyncStore("p1")
    \/ SyncReturn("p1")
    \/ DataChange

SpecSyncDay == InitSync /\ [][NextSyncDay]_vars

\* The states a sweep starts from: u1 has linked; u2 has linked as well, or
\* has only sent /start, or has no document
InitSweep ==
    /\ \E linked2 \in BOOLEAN, exists2 \in BOOLEAN :
          /\ linked2 => exists2
          /\ users = [u \in Users |->
                        IF u = "u1" THEN SetTokensMerge(NoDoc, 1, 1)
                        ELSE IF linked2 THEN SetTokensMerge(NoDoc, 2, 2)
                        ELSE [NoDoc EXCEPT !.exists = exists2]]
          /\ minted = IF linked2 THEN 2 ELSE 1
          /\ upstream = IF linked2
                        THEN [issued |-> 2, stale |-> 0, refresh |-> {1, 2}]
                        ELSE [issued |-> 1, stale |-> 0, refresh |-> {1}]
    /\ oauth_states = [s \in StateVals |-> NoUser]
    /\ task = [p \in Procs |-> IdleTask]
    /\ health_metrics = [k \in MetricKeys |-> NoMetrics]
    /\ whoop_data \in 0..MaxData
    /\ sync = [p \in Procs |-> NoSync]
    /\ last_sync = NotSynced
    /\ sweep = NoSweep

\* Sweeps, one at a time, with a valid access token and answers that lead
\* to no refresh: a fetch fails by a transport error or a 500, the write
\* of the document may raise
NextSweep ==
    \/ SweepStart("p1")
    \/ SweepSkip("p1")
    \/ SweepCall("p1")
    \/ SweepFinish("p1")
    \/ SyncFetch("p1")
    \/ \E resp \in SyncAnswers(task["p1"].access_token) : FetchGet("p1", resp)
    \/ SyncCollect("p1")
    \/ SyncStore("p1")
    \/ SyncStoreRaises("p1")
    \/ SyncReturn("p1")
    \/ SweepReturn("p1")

SpecSweep == InitSweep /\ [][NextSweep]_vars

\* Two tasks serve fetches for u1, who has linked, at the same time
NextFetchConcurrent ==
    \/ \E p \in Procs : FetchStart(p, "u1", "fetch_whoop_data", "sleep")
    \/ \E p \in Procs : \E resp \in GetResponses(task[p].access_token) :
          FetchGet(p, resp)
    \/ \E p \in Procs : \E resp \in RefreshResponses(task[p].refresh_token) :
          FetchRefresh(p, resp)
    \/ \E p \in Procs : FetchStore(p)
    \/ \E p \in Procs : \E resp \in GetResponses(task[p].new_access_token) :
          FetchRetry(p, resp)
    \/ \E p \in Procs : Return(p)
    \/ Expire

SpecFetchConcurrent == InitSync /\ [][NextFetchConcurrent]_vars

\* u1, who has linked, links again (task p1 serves the callbacks) while
\* task p2 serves fetches for u1
NextLinkAndFetch ==
    \/ LinkWhoop("u1")
    \/ \E state \in 1..MaxStates : CallbackStart("p1", 1, state)
    \/ \E resp \in ExchangeResponses : CallbackExchange("p1", resp)
    \/ CallbackStore("p1")
    \/ CallbackDelete("p1")
    \/ \E delivered \in BOOLEAN : CallbackNotify("p1", delivered)
    \/ FetchStart("p2", "u1", "fetch_whoop_data", "sleep")
    \/ \E resp \in GetResponses(task["p2"].access_token) : FetchGet("p2", resp)
    \/ \E resp \in RefreshResponses(task["p2"].refresh_token) :
          FetchRefresh("p2", resp)
    \/ FetchStore("p2")
    \/ \E resp \in GetResponses(task["p2"].new_access_token) :
          FetchRetry("p2", resp)
    \/ \E p \in Procs : Return(p)
    \/ Expire

SpecLinkAndFetch == InitSync /\ [][NextLinkAndFetch]_vars

\* u1 has linked and the access token has expired since
InitSyncStale ==
    /\ users = [u \in Users |->
                  IF u = "u1" THEN SetTokensMerge(NoDoc, 1, 1) ELSE NoDoc]
    /\ oauth_states = [s \in StateVals |-> NoUser]
    /\ minted = 1
    /\ upstream = [issued |-> 1, stale |-> 1, refresh |-> {1}]
    /\ task = [p \in Procs |-> IdleTask]
    /\ health_metrics = [k \in MetricKeys |-> NoMetrics]
    /\ whoop_data = 0
    /\ sync = [p \in Procs |-> NoSync]
    /\ last_sync = NotSynced
    /\ sweep = NoSweep

\* Syncs of today for u1, one at a time, with the refresh protocol and
\* tokens that expire: the resource server is in order, the token endpoint
\* answers under the usual statuses with any body
NextSyncStale ==
    \/ SyncStart("p1", "u1", Today)
    \/ SyncFetch("p1")
    \/ \E resp \in InOrder(GetResponses(task["p1"].access_token)) :
          FetchGet("p1", resp)
    \/ \E resp \in Usual(RefreshResponses(task["p1"].refresh_token)) :
          FetchRefresh("p1", resp)
    \/ FetchStore("p1")
    \/ \E resp \in InOrder(GetResponses(task["p1"].new_access_token)) :
          FetchRetry("p1", resp)
    \/ SyncCollect("p1")
    \/ SyncFetchRaises("p1")
    \/ SyncStore("p1")
    \/ SyncReturn("p1")
    \/ Expire

SpecSyncStale == InitSyncStale /\ [][NextSyncStale]_vars

\* Users link and u1's data of today are synced, one request at a time
\* (/linkwhoop still acts between the steps of a handler).  The access
\* token stays valid here (the refresh protocol is followed under Spec).
NextLinkAndSync ==
    \/ \E u \in Users : LinkWhoop(u)
    \/ \E code \in 0..1, state \in 0..MaxStates :
          CallbackStart("p1", code, state)
    \/ \E resp \in ExchangeResponses : CallbackExchange("p1", resp)
    \/ CallbackStore("p1")
    \/ CallbackDelete("p1")
    \/ \E delivered \in BOOLEAN : CallbackNotify("p1", delivered)
    \/ Return("p1")
    \/ SyncStart("p1", "u1", Today)
    \/ SyncFetch("p1")
    \/ \E resp \in SyncAnswers(task["p1"].access_token) : FetchGet("p1", resp)
    \/ SyncCollect("p1")
    \/ SyncStore("p1")
    \/ SyncReturn("p1")

SpecLinkAndSync == Init /\ [][NextLinkAndSync]_vars

\* Two tasks serve a sync of today for u1 at the same time while data arrive
\* at the server: each sync starts before the record of the day has been
\* written.  The access token stays valid here.
NextSyncConcurrent ==
    \/ \E p \in Procs :
          /\ ~health_metrics[<<"u1", Today>>].exists
          /\ SyncStart(p, "u1", Today)
    \/ \E p \in Procs : SyncFetch(p)
    \/ \E p \in Procs : \E resp \in SyncAnswers(task[p].access_token) :
          FetchGet(p, resp)
    \/ \E p \in Procs : SyncCollect(p)
    \/ \E p \in Procs : SyncStore(p)
    \/ \E p \in Procs : SyncReturn(p)
    \/ DataChange

SpecSyncConcurrent == InitSync /\ [][NextSyncConcurrent]_vars

(***************************************************************************)
(* Properties of the refreshing fetch.                                     *)
(***************************************************************************)
IsFetch(p) == task[p].handler \in FetchHandlers
FetchDone(p) == IsFetch(p) /\ task[p].pc = "done"

\* The document read at the start held a Credential
Linked(doc) == doc.exists /\ doc.whoop_access_token # None

\* The first resource GET was answered 401 or 403
FirstUnauthorized(p) ==
    Len(task[p].statuses) >= 1 /\ task[p].statuses[1] \in {401, 403}

\* The refresh POST was issued and refresh_whoop_token returned None
\* (transport error, error status, body that is not JSON)
RefreshFailed(p) == task[p].refreshes = 1 /\ ~task[p].refreshed.ok

\* The refresh POST was answered with a JSON object that holds both tokens
RefreshSucceeded(p) ==
    /\ task[p].refreshes = 1
    /\ task[p].refreshed.ok
    /\ TokenKeys \subseteq task[p].refreshed.data.keys

\* The refresh POST was answered with a JSON object lacking a token key
RefreshMalformed(p) ==
    /\ task[p].refreshes = 1
    /\ task[p].refreshed.ok
    /\ task[p].refreshed.value = "object"
    /\ ~(TokenKeys \subseteq task[p].refreshed.data.keys)

\* The answer carries a JSON object that does not report a failure of its
\* own: it has no "success" member, or a true one
Plain(resp) ==
    /\ resp.json /\ resp.value = "object"
    /\ "success" \in resp.body.keys => resp.body.success = "True"

\* C1 as stated: a fetch whose first GET is answered 401/403 and whose
\* retry GET is answered 200 returns success, having issued exactly two
\* resource GETs and exactly one write to the user's Credential.
C1_RetryAfterRefreshSucceeds ==
    \A p \in Procs :
        (/\ FetchDone(p)
         /\ FirstUnauthorized(p)
         /\ Len(task[p].statuses) >= 2
         /\ task[p].statuses[2] = 200)
        => /\ ResultSuccess(task[p].response)
           /\ Len(task[p].sent) = 2
           /\ task[p].writes = 1

\* C1, amended: a fetch whose first GET is answered 401/403 and whose
\* retry GET is answered 200 with a JSON object that does not report a
\* failure of its own returns success, having issued exactly two resource
\* GETs and exactly one write to the user's Credential.
C1_RetryJsonAfterRefreshSucceeds ==
    \A p \in Procs :
        (/\ FetchDone(p)
         /\ FirstUnauthorized(p)
         /\ Len(task[p].statuses) >= 2
         /\ task[p].statuses[2] = 200 /\ Plain(task[p].answers[2]))
        => /\ ResultSuccess(task[p].response)
           /\ Len(task[p].sent) = 2
           /\ task[p].writes = 1

C1_Witness ==
    \E p \in Procs :
        /\ FetchDone(p)
        /\ Linked(task[p].cred0)
        /\ task[p].statuses \in {<<401, 200>>, <<403, 200>>}
        /\ ResultSuccess(task[p].response)
        /\ task[p].writes = 1

\* C2: a fetch for a user with no Credential (no document, or a document
\* without an access token) issues no resource GET and no refresh, writes
\* nothing and returns a result whose success flag is not true.
C2_NotLinkedNoUpstreamCall ==
    \A p \in Procs :
        (IsFetch(p) /\ ~Linked(task[p].cred0))
        => /\ task[p].pc = "done"
           /\ task[p].sent = <<>>
           /\ task[p].refreshes = 0
           /\ task[p].writes = 0
           /\ users[task[p].user] = task[p].cred0
           /\ ~ResultSuccess(task[p].response)

C2_Witness ==
    /\ \E p \in Procs : FetchDone(p) /\ ~task[p].cred0.exists
    /\ upstream.issued > 0

C2_WitnessNoToken ==
    \E p \in Procs :
        /\ FetchDone(p)
        /\ task[p].cred0.exists
        /\ task[p].cred0.whoop_access_token = None

\* C3: in every state of every fetch at most two resource GETs and at most
\* one token refresh have been issued.
C3_AtMostTwoGetsOneRefresh ==
    \A p \in Procs :
        IsFetch(p) => Len(task[p].sent) <= 2 /\ task[p].refreshes <= 1

C3_Witness ==
    \E p \in Procs :
        /\ FetchDone(p)
        /\ Len(task[p].sent) = 2
        /\ task[p].refreshes = 1
        /\ ~ResultSuccess(task[p].response)

\* C4: when the first GET is answered 401/403 and the refresh then fails,
\* the fetch returns a failure, has issued no further GET, and the stored
\* Credential is as it was read at the start.
C4_RefreshFailureIsTerminal ==
    \A p \in Procs :
        (IsFetch(p) /\ FirstUnauthorized(p) /\ RefreshFailed(p))
        => /\ task[p].pc = "done"
           /\ ~ResultSuccess(task[p].response)
           /\ Len(task[p].sent) = 1
           /\ task[p].writes = 0
           /\ users[task[p].user] = task[p].cred0

C4_Witness ==
    \E p \in Procs :
        /\ FetchDone(p)
        /\ FirstUnauthorized(p)
        /\ RefreshFailed(p)
        /\ Linked(users[task[p].user])

\* C5: after a successful refresh the stored Credential holds exactly the
\* access token and the refresh token of the refresh response, the old
\* refresh token is no longer stored, and there is no state in between:
\* until the write the document is as read, from the write on it holds
\* the new pair.
C5_StoresReturnedPair ==
    \A p \in Procs :
        (IsFetch(p) /\ RefreshSucceeded(p))
        => LET doc == users[task[p].user]
               new == task[p].refreshed.data
           IN  IF task[p].pc = "store"
               THEN doc = task[p].cred0
               ELSE /\ task[p].pc \in {"get2", "done"}
                    /\ task[p].writes = 1
                    /\ doc.whoop_access_token = DictGet(new, "access_token")
                    /\ doc.whoop_refresh_token = DictGet(new, "refresh_token")
                    /\ doc.whoop_refresh_token
                          # task[p].cred0.whoop_refresh_token

C5_Witness ==
    \E p \in Procs :
        /\ IsFetch(p)
        /\ RefreshSucceeded(p)
        /\ task[p].pc = "get2"
        /\ task[p].cred0.whoop_refresh_token = 1
        /\ users[task[p].user].whoop_access_token = 2
        /\ users[task[p].user].whoop_refresh_token = 2

\* C6: in a fetch where the refresh succeeds, the new Credential is written
\* before the retry GET is issued, the retry GET is issued once, and it
\* carries the access token of the refresh response, not the one read at
\* the start.
C6_WriteBeforeRetryWithNewToken ==
    \A p \in Procs :
        (IsFetch(p) /\ RefreshSucceeded(p))
        => LET new == DictGet(task[p].refreshed.data, "access_token")
           IN  /\ Len(task[p].sent) <= 2
               /\ task[p].pc = "get2"
                    => /\ task[p].writes = 1
                       /\ Len(task[p].sent) = 1
                       /\ users[task[p].user].whoop_access_token = new
               /\ Len(task[p].sent) = 2
                    => /\ task[p].writes = 1
                       /\ task[p].sent[2] = new
                       /\ task[p].sent[2] # task[p].cred0.whoop_access_token
               /\ task[p].pc = "done" => Len(task[p].sent) = 2

C6_Witness ==
    \E p \in Procs :
        /\ FetchDone(p)
        /\ RefreshSucceeded(p)
        /\ Len(task[p].sent) = 2
        /\ task[p].sent[1] # task[p].sent[2]

\* C7 (as claimed): in app.py's fetch_whoop_data a refresh is started only
\* after a resource GET of the same invocation was answered 401 or 403; a
\* first GET that succeeds or fails otherwise ends the fetch with no
\* refresh and no write.  Tasks that are not a fetch never refresh.
C7_RefreshOnlyAfterUnauthorized ==
    \A p \in Procs :
        /\ (task[p].handler = "fetch_whoop_data"
            /\ (task[p].pc \in {"refresh", "store", "get2"}
                \/ task[p].refreshes > 0 \/ task[p].writes > 0))
           => FirstUnauthorized(p)
        /\ (task[p].handler = "fetch_whoop_data"
            /\ Len(task[p].statuses) >= 1 /\ ~FirstUnauthorized(p))
           => /\ task[p].pc = "done"
              /\ task[p].refreshes = 0
              /\ task[p].writes = 0
              /\ Len(task[p].sent) = 1
              /\ users[task[p].user] = task[p].cred0
        /\ ~IsFetch(p) => task[p].refreshes = 0

\* C8 (as claimed of main.py's fetch_whoop_sleep_data): a first GET that
\* fails for a reason other than 401/403 ends the fetch with a failure,
\* without a token refresh, without a retry GET and without a write.
C8_MainNoRefreshOnOtherFailure ==
    \A p \in Procs :
        (/\ task[p].handler = "fetch_whoop_sleep_data"
         /\ Len(task[p].statuses) >= 1
         /\ task[p].statuses[1] \notin {200, 401, 403})
        => /\ task[p].pc = "done"
           /\ ~ResultSuccess(task[p].response)
           /\ task[p].refreshes = 0
           /\ Len(task[p].sent) = 1
           /\ task[p].writes = 0

\* The results a fetch returns when the refresh itself failed: the result
\* of the first GET, which was answered 401 or 403
AuthExpiredResults ==
    {CallWhoopApiResult(HttpError(st)) : st \in {401, 403}}

\* C9 (as claimed): when the refresh succeeds but the retry GET fails, the
\* fetch returns a failure that differs from the one returned when the
\* refresh itself failed.
C9_RetryFailureDistinguishable ==
    \A p \in Procs :
        /\ (FetchDone(p) /\ FirstUnauthorized(p) /\ RefreshFailed(p))
           => task[p].response \in AuthExpiredResults
        /\ (FetchDone(p) /\ RefreshSucceeded(p)
            /\ ~ResultSuccess(task[p].response))
           => task[p].response \notin AuthExpiredResults

\* C10 (as claimed): a refresh answered 2xx with a JSON object lacking
\* access_token and/or refresh_token is treated as a refresh failure: the
\* stored Credential is not overwritten and no retry GET is issued.
C10_MalformedRefreshIsFailure ==
    \A p \in Procs :
        (IsFetch(p) /\ RefreshMalformed(p))
        => /\ task[p].pc = "done"
           /\ task[p].writes = 0
           /\ Len(task[p].sent) = 1
           /\ users[task[p].user] = task[p].cred0

(***************************************************************************)
(* Linking: whoop_callback.                                                *)
(***************************************************************************)
IsCallback(p) == task[p].handler = "whoop_callback"

\* The callback came with both query parameters
HasParams(p) == task[p].code # 0 /\ task[p].state # 0

\* The tokens the exchange of task p returned
ExchangedAccess(p) == DictGet(task[p].exchanged.data, "access_token")
ExchangedRefresh(p) == DictGet(task[p].exchanged.data, "refresh_token")

\* The code exchange of task p was made and failed: a transport error
\* (status 0), a status outside 2xx, an unreadable body, or an answer
\* without access token
ExchangeFailed(p) ==
    /\ task[p].exchanges >= 1
    /\ \/ task[p].statuses[1] \notin 200..299
       \/ ~task[p].exchanged.ok
       \/ ExchangedAccess(p) = None

\* C11: a callback whose state was consumed by an earlier callback ends at
\* the lookup with the invalid-state reply: it makes no code exchange and
\* writes no credential.
C11_ReplayRejected ==
    \A p \in Procs :
        (IsCallback(p) /\ HasParams(p) /\ task[p].replay) =>
            /\ task[p].pc = "done"
            /\ task[p].reply = INVALID_STATE
            /\ task[p].exchanges = 0
            /\ task[p].writes = 0
            /\ users = task[p].users0

\* A replay after the link of that state was reported successful
C11_Witness ==
    \E p \in Procs :
        /\ IsCallback(p) /\ HasParams(p) /\ task[p].replay
        /\ task[p].reply = INVALID_STATE
        /\ \E u \in Users : Linked(users[u])

\* C12: the state document is deleted right after the lookup, before the
\* code exchange: once a callback has made its exchange, whatever the
\* answer, its state is gone.
C12_StateDeletedBeforeExchange ==
    \A p \in Procs :
        (IsCallback(p) /\ task[p].exchanges >= 1) =>
            oauth_states[task[p].state] = NoUser

\* C13: a callback whose state has no document ends with the invalid-state
\* reply and has no effect: no exchange, no credential write, no delete in
\* oauth_states, no Telegram message.
C13_UnknownStateNoEffect ==
    \A p \in Procs :
        (IsCallback(p) /\ HasParams(p) /\ task[p].user = NoUser) =>
            /\ task[p].pc = "done"
            /\ task[p].reply = INVALID_STATE
            /\ task[p].exchanges = 0
            /\ task[p].writes = 0
            /\ task[p].deletes = 0
            /\ task[p].notified = 0
            /\ users = task[p].users0

\* A state value that was never issued, while another state is pending
C13_Witness ==
    \E p \in Procs :
        /\ IsCallback(p) /\ HasParams(p)
        /\ task[p].state > minted
        /\ task[p].reply = INVALID_STATE
        /\ \E s \in StateVals : oauth_states[s] # NoUser

\* C14: when the code exchange fails (transport error, status outside 2xx,
\* unreadable body, or no access token in the answer) the callback reports
\* a failure and writes no credential: every user document is as it was.
C14_ExchangeFailureWritesNothing ==
    \A p \in Procs :
        (IsCallback(p) /\ ExchangeFailed(p)) =>
            /\ task[p].pc = "done"
            /\ task[p].reply \in {EXCHANGE_FAILED, NO_ACCESS_TOKEN}
            /\ task[p].writes = 0
            /\ users = task[p].users0

\* C15: a callback that reports success has written the pair the exchange
\* returned to the document of the user the state document names (the one
\* /linkwhoop wrote it for), once, and to no other document.
C15_SuccessWritesToMinter ==
    \A p \in Procs :
        IsCallback(p) =>
            /\ task[p].pc \in {"exchange", "cb_store"} =>
                   task[p].user = oauth_states[task[p].state]
            /\ task[p].reply = AUTHORIZED =>
                   /\ task[p].writes = 1
                   /\ users = [task[p].users0 EXCEPT ![task[p].user] =
                                  SetTokensMerge(@, ExchangedAccess(p),
                                                    ExchangedRefresh(p))]

\* Success for one user while the other user is linked with another pair
C15_Witness ==
    \E p \in Procs :
        /\ IsCallback(p) /\ task[p].reply = AUTHORIZED
        /\ \E u \in Users \ {task[p].user} :
               /\ Linked(users[u])
               /\ users[u].whoop_access_token #
                      users[task[p].user].whoop_access_token

\* C16: of the callbacks that run concurrently with the same state, at most
\* one gets past the lookup to the code exchange and the credential write.
C16_AtMostOneProceeds ==
    \A p, q \in Procs :
        (/\ p # q
         /\ IsCallback(p) /\ IsCallback(q)
         /\ HasParams(p) /\ task[p].state = task[q].state) =>
            ~(task[p].exchanges >= 1 /\ task[q].exchanges >= 1)

(***************************************************************************)
(* The daily sync: update_daily_health_data.                               *)
(***************************************************************************)
\* Task p has come to the end of update_daily_health_data
SyncDone(p) == sync[p].active /\ task[p].pc = "sync_done"

\* The document of the sync of task p
SyncKey(p) == <<sync[p].user, sync[p].date>>

\* The three sequences of a document
Sequences(doc) ==
    <<doc.sleep_records, doc.recovery_records, doc.workout_records>>

\* C17: each of the three categories is fetched whatever the others gave;
\* when recovery fails and sleep and workout succeed with records, the
\* document is written with the sleep and workout records as fetched and
\* an empty recovery sequence.
C17_PartialFailureStillWrites ==
    \A p \in Procs :
        /\ (sync[p].active /\ task[p].pc \in {"sync_store", "sync_done"}) =>
               Len(sync[p].results) = Len(SyncOrder)
        /\ (/\ SyncDone(p)
            /\ Succeeded(sync[p].results) = {"sleep", "workout"}
            /\ sync[p].results[1].records # <<>>
            /\ sync[p].results[3].records # <<>>) =>
               /\ health_metrics[SyncKey(p)].exists
               /\ Sequences(health_metrics[SyncKey(p)]) =
                      <<sync[p].results[1].records, <<>>,
                        sync[p].results[3].records>>

\* The recovery fetch failed between two fetches that gave records
C17_Witness ==
    \E p \in Procs :
        /\ SyncDone(p)
        /\ Succeeded(sync[p].results) = {"sleep", "workout"}
        /\ health_metrics[SyncKey(p)].sleep_records # <<>>
        /\ health_metrics[SyncKey(p)].workout_records # <<>>
        /\ health_metrics[SyncKey(p)].recovery_records = <<>>

\* The outcome the contract asks of a sync: the status of each category,
\* and the PartialSync flag when one of them failed
SyncOutcome(results) ==
    [statuses |-> [i \in 1..Len(results) |-> ResultSuccess(results[i])],
     PartialSync |-> \E i \in 1..Len(results) : ~ResultSuccess(results[i])]

\* C18: a sync returns an outcome that lists success or failure of each of
\* the three categories and carries the PartialSync flag exactly when one
\* of them failed.
C18_ReturnsOutcome ==
    \A p \in Procs :
        SyncDone(p) =>
            /\ sync[p].returned # "None"
            /\ sync[p].returned = SyncOutcome(sync[p].results)

\* The sync before the one of task p was for the same document, and the
\* server's data were the same throughout both
Repeated(p) ==
    /\ sync[p].seen0.user = sync[p].user
    /\ sync[p].seen0.date = sync[p].date
    /\ sync[p].seen0.version # Mixed
    /\ sync[p].seen0.version = sync[p].v0
    /\ sync[p].v0 = whoop_data

\* C19 as stated: a second sync over unchanged data leaves the sequences
\* the first one left.
C19_Idempotent ==
    \A p \in Procs :
        (SyncDone(p) /\ Repeated(p)) =>
            Sequences(health_metrics[SyncKey(p)]) =
                Sequences(sync[p].metrics0[SyncKey(p)])

\* C19, amended: a second sync over unchanged data, in which each category
\* succeeds (with or without a "records" member in the answer) or fails as
\* it did in the first, leaves the sequences, and the nulls, the first one
\* left.
C19_IdempotentSameOutcome ==
    \A p \in Procs :
        (/\ SyncDone(p) /\ Repeated(p)
         /\ Succeeded(sync[p].results) = sync[p].seen0.ok
         /\ Nulls(sync[p].results) = sync[p].seen0.nulls) =>
            /\ Sequences(health_metrics[SyncKey(p)]) =
                   Sequences(sync[p].metrics0[SyncKey(p)])
            /\ health_metrics[SyncKey(p)].nulls =
                   sync[p].metrics0[SyncKey(p)].nulls

\* A repeated sync with records, recovery failing both times
C19_Witness ==
    \E p \in Procs :
        /\ SyncDone(p) /\ Repeated(p)
        /\ Succeeded(sync[p].results) = sync[p].seen0.ok
        /\ sync[p].seen0.ok = {"sleep", "workout"}
        /\ health_metrics[SyncKey(p)].sleep_records # <<>>

\* C20: a sync for (u, d) leaves the document (u, d) in place and every
\* other document, of another user or another date, as it was; a document
\* is addressed by its user and date, so there is one per pair.
C20_OnlyOwnRecord ==
    \A p \in Procs :
        /\ sync[p].active =>
               \A k \in MetricKeys \ {SyncKey(p)} :
                   health_metrics[k] = sync[p].metrics0[k]
        /\ SyncDone(p) =>
               health_metrics[SyncKey(p)] = DataToStore(sync[p].results)
        /\ (sync[p].active /\ ~SyncDone(p)) =>
               health_metrics[SyncKey(p)] = sync[p].metrics0[SyncKey(p)]

\* A sync that has updated its document while the same user has a document
\* with records for the other date and the other user has one too
C20_Witness ==
    \E p \in Procs :
        /\ SyncDone(p)
        /\ sync[p].metrics0[SyncKey(p)].exists
        /\ \E d \in Dates \ {sync[p].date} :
               health_metrics[<<sync[p].user, d>>].sleep_records # <<>>
        /\ \E u \in Users \ {sync[p].user}, d \in Dates :
               health_metrics[<<u, d>>].exists

(***************************************************************************)
(* Credential lifecycle and what a fetch and a callback report.            *)
(***************************************************************************)
\* C26: a Credential is never deleted: a user document that holds an access
\* token holds one after every step, whatever fetch, refresh, sync or link
\* attempt the step belongs to.
C26_CredentialNeverLost ==
    [][\A u \in Users : Linked(users[u]) => Linked(users'[u])]_vars

\* The status the last resource GET of task p was answered with
LastStatus(p) == task[p].statuses[Len(task[p].statuses)]

\* C27: a fetch reports success only if a resource GET it issued was
\* answered 2xx; not linked, invalid data type, transport error, status
\* outside 2xx, failed refresh and failed retry all give a result whose
\* success flag is not true.
C27_SuccessOnlyAfter2xx ==
    \A p \in Procs :
        FetchDone(p) =>
            /\ ResultSuccess(task[p].response) =>
                   /\ task[p].statuses # <<>>
                   /\ LastStatus(p) \in 200..299
            /\ (task[p].statuses = <<>> \/ LastStatus(p) \notin 200..299) =>
                   task[p].response.success \in {"False", "None"}

\* C28: a callback that answers with an error has left the users
\* collection as it found it.
C28_ErrorReplyStoreUnchanged ==
    \A p \in Procs :
        (IsCallback(p) /\ task[p].pc = "done" /\ task[p].reply # AUTHORIZED) =>
            users = task[p].users0

(***************************************************************************)
(* What the sync leaves in the document.                                   *)
(***************************************************************************)
\* The document of task p's sync as it was when the sync began
Before(p) == sync[p].metrics0[SyncKey(p)]

\* The fetch of category number i (in SyncOrder) failed in task p's sync
Failed(p, i) == ~ResultSuccess(sync[p].results[i])

\* C21 as stated: the sync writes the sequences of the categories whose
\* fetch succeeded, and a category whose fetch failed keeps the sequence
\* the document held.
C21_FailedCategoryKept ==
    \A p \in Procs :
        SyncDone(p) =>
            \A i \in 1..Len(SyncOrder) :
                Sequences(health_metrics[SyncKey(p)])[i] =
                    IF Failed(p, i) THEN Sequences(Before(p))[i]
                    ELSE sync[p].results[i].records

\* C21, amended: the sync writes all four fields of the document: for a
\* category whose fetch succeeded the records as fetched (null when the
\* answer had no "records" member), for one whose fetch failed the empty
\* sequence, and the timestamp of the sync.
C21_AllFourFieldsWritten ==
    \A p \in Procs :
        SyncDone(p) =>
            /\ \A i \in 1..Len(SyncOrder) :
                   /\ Sequences(health_metrics[SyncKey(p)])[i] =
                          IF Failed(p, i) THEN <<>>
                          ELSE sync[p].results[i].records
                   /\ SyncOrder[i] \in health_metrics[SyncKey(p)].nulls
                          <=> (~Failed(p, i) /\ ~sync[p].results[i].has_records)
            /\ health_metrics[SyncKey(p)].timestamp = "utcnow"

\* A sync over a document with records in which sleep gave records, the
\* recovery fetch failed and the answer for workout had no "records" member
C21_Witness ==
    \E p \in Procs :
        /\ SyncDone(p)
        /\ Succeeded(sync[p].results) = {"sleep", "workout"}
        /\ health_metrics[SyncKey(p)].sleep_records # <<>>
        /\ health_metrics[SyncKey(p)].nulls = {"workout"}
        /\ Before(p).recovery_records # <<>>

\* C22: a category whose fetch failed in the sync is the empty sequence in
\* the document afterwards, whatever it held before.
C22_FailedCategoryEmptied ==
    \A p \in Procs :
        SyncDone(p) =>
            \A i \in 1..Len(SyncOrder) :
                Failed(p, i) =>
                    /\ Sequences(health_metrics[SyncKey(p)])[i] = <<>>
                    /\ SyncOrder[i] \notin health_metrics[SyncKey(p)].nulls

\* The recovery fetch failed over a document that held recovery records
C22_Witness ==
    \E p \in Procs :
        /\ SyncDone(p)
        /\ Failed(p, 2)
        /\ Before(p).recovery_records # <<>>
        /\ health_metrics[SyncKey(p)].recovery_records = <<>>

(***************************************************************************)
(* The sweep: scheduled_update_health_data.                                *)
(***************************************************************************)
\* C23: the sweep skips a user without access token before any fetch: no
\* sync is entered for such a user and none of their documents changes.
C23_UnlinkedSkipped ==
    sweep.active =>
        \A u \in Users :
            ~Linked(sweep.snapshot[u]) =>
                /\ u \notin sweep.called
                /\ \A p \in Procs : sync[p].active => sync[p].user # u
                /\ \A d \in Dates :
                       health_metrics[<<u, d>>] = sweep.metrics0[<<u, d>>]

\* A sweep that ended well, having passed over a user who only sent /start
C23_Witness ==
    /\ sweep.active /\ sweep.status = "success"
    /\ sweep.called # {}
    /\ \E u \in Users : sweep.snapshot[u].exists /\ ~Linked(sweep.snapshot[u])

\* C24: a failure while one user is processed does not end the sweep: when
\* the sweep is over, update_daily_health_data has been called for every
\* linked user.
C24_SweepProcessesAll ==
    (sweep.active /\ sweep.status # "") =>
        \A u \in Users : Linked(sweep.snapshot[u]) => u \in sweep.called

(***************************************************************************)
(* The refresh inside a sync.                                              *)
(***************************************************************************)
\* The first fetch of task p's sync found the stored access token refused,
\* refreshed, and got a pair; that pair's access token is still accepted
RefreshedInFirstFetch(p) ==
    /\ Len(sync[p].log) = Len(SyncOrder)
    /\ sync[p].log[1].statuses # <<>>
    /\ sync[p].log[1].statuses[1] \in {401, 403}
    /\ sync[p].log[1].refreshes = 1
    /\ sync[p].log[1].new_access_token # None
    /\ sync[p].log[1].new_refresh_token # None
    /\ AccessValid(sync[p].log[1].new_access_token)

\* C29: in a sync that starts with a stale access token and whose refresh
\* gives a pair (which does not expire before the sync ends), the first
\* fetch makes the only refresh: each later fetch reads the refreshed pair,
\* sends one GET with the refreshed access token, which is not refused,
\* makes no refresh, and succeeds when that GET is answered 200.
C29_OneRefreshPerSync ==
    \A p \in Procs :
        (SyncDone(p) /\ RefreshedInFirstFetch(p)) =>
            \A i \in 2..Len(SyncOrder) :
                /\ Len(sync[p].log[i].sent) = 1
                /\ sync[p].log[i].sent[1] = sync[p].log[1].new_access_token
                /\ sync[p].log[i].statuses[1] \notin {401, 403}
                /\ sync[p].log[i].refreshes = 0
                /\ sync[p].log[i].statuses[1] = 200
                      => ResultSuccess(sync[p].results[i])

\* Such a sync in which all three categories succeeded
C29_Witness ==
    \E p \in Procs :
        /\ SyncDone(p) /\ RefreshedInFirstFetch(p)
        /\ Succeeded(sync[p].results) = {"sleep", "recovery", "workout"}

(***************************************************************************)
(* Concurrent requests for one user.                                       *)
(***************************************************************************)
\* Tasks p and q are fetches for the same user that have both returned,
\* both after a refused first GET and a refresh with the same refresh
\* token; p's refresh gave a pair (the winner), q's was refused
RefreshRace(p, q) ==
    /\ p # q
    /\ FetchDone(p) /\ FetchDone(q)
    /\ task[p].user = task[q].user
    /\ FirstUnauthorized(p) /\ FirstUnauthorized(q)
    /\ task[p].refresh_token = task[q].refresh_token
    /\ RefreshSucceeded(p)
    /\ RefreshFailed(q)

\* C25: of two concurrent fetches that refresh with the same refresh token
\* the loser fails without a write, the user document holds the pair the
\* winner got, and that pair's refresh token is the one the server accepts,
\* so that the next fetch needs no new link.
C25_RefreshRaceSelfHeals ==
    \A p, q \in Procs :
        RefreshRace(p, q) =>
            /\ task[q].writes = 0
            /\ ~ResultSuccess(task[q].response)
            /\ users[task[p].user].whoop_access_token = task[p].new_access_token
            /\ users[task[p].user].whoop_refresh_token =
                   task[p].new_refresh_token
            /\ task[p].new_refresh_token \in upstream.refresh

\* The race, the loser's refresh answered 400 after the winner's
C25_Witness ==
    \E p, q \in Procs :
        /\ RefreshRace(p, q)
        /\ task[q].response.error = UNAUTHORIZED
        /\ ResultSuccess(task[p].response)

\* The two tokens of a user document come from one token response
Paired(doc) ==
    \/ doc.whoop_access_token = None
    \/ doc.whoop_refresh_token = None
    \/ doc.whoop_access_token = doc.whoop_refresh_token

\* C30: under any interleaving of callbacks and fetches for a user, the
\* access token and the refresh token in the user document were issued in
\* the same token response.
C30_StoredPairFromOneResponse ==
    \A u \in Users : Paired(users[u])

\* A callback and a fetch have both written the user's document, with
\* different pairs, and both are still running or just done
C30_Witness ==
    \E p, q \in Procs :
        /\ IsCallback(p) /\ IsFetch(q)
        /\ task[p].writes = 1 /\ task[q].writes = 1
        /\ task[p].user = task[q].user
        /\ task[p].new_access_token # task[q].new_access_token
        /\ users[task[p].user].whoop_refresh_token # None

(***************************************************************************)
(* Frame of the state documents and of a fetch.                            *)
(***************************************************************************)
\* The state document s is outstanding: /linkwhoop has written it and no
\* callback has deleted it
Outstanding(s) == oauth_states[s] # NoUser

\* Task p is a callback carrying state s whose exchange was answered with
\* an access token, which has stored the pair and now deletes the document
ConsumedBy(s, p) ==
    /\ IsCallback(p) /\ task[p].state = s
    /\ task[p].pc = "cb_delete" /\ task'[p].pc = "cb_notify"
    /\ task[p].exchanged.ok
    /\ DictGet(task[p].exchanged.data, "access_token") # None
    /\ task[p].writes = 1

\* A step leaves the state documents alone, or writes the one /linkwhoop
\* mints, or deletes the one a callback has linked with
StateFrame ==
    \A s \in StateVals :
        oauth_states'[s] # oauth_states[s] =>
            \/ ~Outstanding(s) /\ s = minted + 1 /\ minted' = s
            \/ /\ Outstanding(s) /\ ~Outstanding(s)'
               /\ \E p \in Procs : ConsumedBy(s, p)

\* The lookup of a callback turns away a state whose document is not
\* there, and no other: an outstanding state is accepted whatever its age
StateUsable ==
    \A p \in Procs :
        (task[p].pc = "idle" /\ task'[p].handler = "whoop_callback"
            /\ task'[p].code # 0 /\ task'[p].state # 0) =>
            IF Outstanding(task'[p].state)
            THEN task'[p].pc = "exchange"
            ELSE task'[p].reply = INVALID_STATE

\* A callback that fails, one that ends with another reply than the
\* success message, has deleted no state document
FailedCallbackLeaves ==
    \A p \in Procs :
        (/\ task[p].pc # "done" /\ task'[p].pc = "done"
         /\ task'[p].handler = "whoop_callback"
         /\ task'[p].reply # AUTHORIZED) => task'[p].deletes = 0

\* C31: a state document is removed only by a successful callback that
\* carries that state; /linkwhoop, the fetches of a sync, the sync's write,
\* callbacks that fail and callbacks with another state leave every
\* outstanding state document in place, and an outstanding state is
\* accepted by the lookup.
C31_StateRemovedOnlyByOwnCallback ==
    [][StateFrame /\ StateUsable /\ FailedCallbackLeaves]_vars

\* Tasks p and q are in syncs of the same user and date and both have
\* written the record
BothWritten(p, q) ==
    /\ p # q
    /\ sync[p].active /\ sync[q].active
    /\ sync[p].user = sync[q].user /\ sync[p].date = sync[q].date
    /\ task[p].pc = "sync_done" /\ task[q].pc = "sync_done"

\* C32: when two syncs of the same user and date have run concurrently and
\* both have written, the record is the one of one of the two invocations:
\* its three sequences are the ones that invocation fetched, never sleep
\* from one and recovery or workout from the other.
C32_RecordFromOneSync ==
    \A p, q \in Procs :
        BothWritten(p, q) =>
            health_metrics[<<sync[p].user, sync[p].date>>]
                \in {DataToStore(sync[p].results), DataToStore(sync[q].results)}

\* The two syncs fetched different sequences in every category where a
\* mixture could show: each has a category the other lacks
C32_Witness ==
    \E p, q \in Procs :
        /\ BothWritten(p, q)
        /\ RecordsOf(sync[p].results[1]) # RecordsOf(sync[q].results[1])
        /\ RecordsOf(sync[p].results[2]) # RecordsOf(sync[q].results[2])
        /\ health_metrics[<<sync[p].user, sync[p].date>>] =
              DataToStore(sync[p].results)

\* Task p takes a step of a fetch
FetchStep(p) == (IsFetch(p) \/ IsFetch(p)') /\ task'[p] # task[p]

\* What a step of a fetch may change in the stores: the user document of
\* the user it was called for, and nothing else
FetchFrame ==
    \A p \in Procs :
        FetchStep(p) =>
            /\ oauth_states' = oauth_states /\ minted' = minted
            /\ health_metrics' = health_metrics
            /\ \A u \in Users :
                  users'[u] # users[u] => IsFetch(p) /\ u = task[p].user

\* The first GET of the fetch p was answered with success
FirstGetSucceeded(p) ==
    IsFetch(p) /\ Len(task[p].statuses) >= 1 /\ ResultSuccess(task[p].first)

\* A fetch whose first GET succeeded is over: one GET, no refresh, no write,
\* and that GET's result is the one returned
FirstGetIsLast ==
    \A p \in Procs :
        FirstGetSucceeded(p) =>
            /\ task[p].pc = "done"
            /\ Len(task[p].sent) = 1 /\ task[p].refreshes = 0
            /\ task[p].writes = 0
            /\ task[p].response = task[p].first

\* C33: a fetch whose first resource GET succeeds issues that one upstream
\* call and writes nothing; no step of any fetch changes a state document,
\* a daily record or the user document of another user.
C33_FetchFrame ==
    [][FetchFrame /\ FirstGetIsLast']_vars

\* A fetch has succeeded at its first GET while a state document of the
\* other user is outstanding
C33_Witness ==
    \E p \in Procs :
        /\ FirstGetSucceeded(p) /\ task[p].pc = "done"
        /\ users[task[p].user] = task[p].cred0
        /\ \E s \in StateVals :
              Outstanding(s) /\ oauth_states[s] # task[p].user

\* C34: a callback that lacks the code or the state parameter answers with
\* the missing-parameter error at once: it has read and deleted no state
\* document, issued no token exchange and written no user document, and
\* the two collections are as they were when it arrived.
C34_MissingParamsNoAccess ==
    \A p \in Procs :
        (IsCallback(p) /\ ~HasParams(p)) =>
            /\ task[p].pc = "done"
            /\ task[p].reply = MISSING
            /\ task[p].lookups = 0 /\ task[p].deletes = 0
            /\ task[p].exchanges = 0
            /\ task[p].writes = 0
            /\ users = task[p].users0

\* A callback without code whose state is that of an outstanding document
\* of a user who has not linked
C34_Witness ==
    \E p \in Procs :
        /\ IsCallback(p) /\ task[p].code = 0 /\ task[p].state # 0
        /\ Outstanding(task[p].state)
        /\ ~Linked(users[oauth_states[task[p].state]])

\* A callback without state
C34_WitnessNoState ==
    \E p \in Procs : IsCallback(p) /\ task[p].code # 0 /\ task[p].state = 0

\* The data types the endpoints table of fetch_whoop_data does not have
InvalidTypes == {dt \in DataTypes : Endpoint(dt) = ""}

\* The fetch p has returned the invalid-data-type failure for dt without
\* an upstream call or a write
InvalidReturned(p, dt) ==
    /\ task[p].pc = "done"
    /\ task[p].response = Result("False", InvalidDataType(dt))
    /\ task[p].sent = <<>> /\ task[p].refreshes = 0 /\ task[p].writes = 0

\* The fetch p has returned {} without an upstream call or a write
NotLinkedReturned(p) ==
    /\ task[p].pc = "done"
    /\ task[p].response = EmptyResult
    /\ task[p].sent = <<>> /\ task[p].refreshes = 0 /\ task[p].writes = 0

\* C35: fetch_whoop_data called for a linked user with a data type that is
\* not in the endpoints table returns the failure that names the data type,
\* with no upstream call and the stores as they were; called for a user
\* without Credential it returns the not-linked result {} whatever the data
\* type is.
C35_InvalidDataType ==
    [][\A p \in Procs, u \in Users, dt \in InvalidTypes :
          FetchStart(p, u, "fetch_whoop_data", dt) =>
              /\ users' = users /\ upstream' = upstream
              /\ IF Linked(users[u])
                 THEN InvalidReturned(p, dt)'
                 ELSE NotLinkedReturned(p)']_vars

\* A fetch of "profile" for a linked user has returned
C35_Witness ==
    \E p \in Procs :
        /\ task[p].handler = "fetch_whoop_data"
        /\ InvalidReturned(p, "profile")
        /\ Linked(task[p].cred0)
        /\ users[task[p].user] = task[p].cred0

====
